---- MODULE Spec2Model ----
(***************************************************************************)
(* Model of the real-time core of live-collab-api:                         *)
(*   - the Hub registry and broadcaster   (internal/websocket/hub.go)      *)
(*   - the connection pumps and the edit pipeline                          *)
(*                                        (internal/websocket/handler.go)  *)
(*   - the events / documents.content tables the pipeline reads and writes *)
(*                                                                         *)
(* The Hub's Run loop is one goroutine that takes one request at a time    *)
(* from its unbuffered channels and runs registerClient, unregisterClient  *)
(* or broadcastToDocument to completion before it takes the next one, so   *)
(* each request (the channel rendezvous and the handler it triggers) is    *)
(* one action.  Every read pump is its own goroutine; the steps of         *)
(* handleEditMessage are separated at each database round trip, which is   *)
(* where the goroutines interleave.                                        *)
(***************************************************************************)
EXTENDS Integers, Sequences, FiniteSets, TLC

\* ------------------------------------------------------------------ bounds
MaxClients == 2      \* connections ever accepted
MaxDocs    == 2      \* rows of the documents table
MaxUsers   == 2      \* rows of the users table
MaxEvents  == 1      \* edit messages read from all connections together (Spec)
MaxEdits   == 2      \* the same in SpecEdit, where the writers run concurrently
SendCap    == 2      \* capacity of Client.Send (256 in the source, scaled down)
MaxLen     == 2      \* longest content / inserted text drawn for applyEdit
MaxPos     == 3      \* largest position / length drawn for applyEdit
MaxCasts   == 3      \* broadcasts handled in SpecWrite
MaxTime    == 120    \* seconds the heartbeat clock runs

ClientIds == 1..MaxClients
Docs      == 1..MaxDocs
Users     == 1..MaxUsers

\* documents.owner_id: document d is owned by user ((d-1) mod MaxUsers)+1
OwnerOf(d) == ((d - 1) % MaxUsers) + 1

Chars == {"a", "b"}

\* ------------------------------------------------------------- data types
\* EditEvent (hub.go): the decoded payload of an "edit" message
EditEvent(op, pos, txt, len) ==
    [operation |-> op, position |-> pos, content |-> txt, length |-> len]

\* Message (hub.go): the wire envelope
Message(t, d, u, v, p) ==
    [type |-> t, document_id |-> d, user_id |-> u, version |-> v, payload |-> p]

NoEdit    == EditEvent("", 0, <<>>, 0)
NoPayload == [kind |-> "none", edit |-> NoEdit]
NoMessage == Message("", 0, 0, 0, NoPayload)

\* payloads a client can put into an envelope: a decodable EditEvent, a JSON
\* value that does not decode into EditEvent, or an opaque cursor payload
EditPayload(e) == [kind |-> "edit", edit |-> e]
BadPayload     == [kind |-> "bad", edit |-> NoEdit]
CursorPayload  == [kind |-> "cursor", edit |-> NoEdit]

\* the edits the connections submit in the concurrent model
EditInputs ==
    { EditEvent("insert", 0, <<"a">>, 0),
      EditEvent("insert", -1, <<"a">>, 0),
      EditEvent("upper", 0, <<>>, 0) }

\* the version field a client writes into its own envelope
ClientVersion == 7

\* frames a client can send: bytes that are not JSON, or an envelope.  The
\* envelope's document_id and user_id are the client's to choose: it names
\* any document, and signs as that document's owner.
Garbage == Message("garbage", 0, 0, 0, NoPayload)
InboundMessages ==
    {Garbage}
    \cup { Message("edit", d, OwnerOf(d), ClientVersion, p) :
             d \in Docs,
             p \in {EditPayload(e) : e \in EditInputs} \cup {BadPayload} }
    \cup { Message("cursor", d, OwnerOf(d), ClientVersion, CursorPayload) :
             d \in Docs }
    \cup { Message("typing", d, OwnerOf(d), ClientVersion, CursorPayload) :
             d \in Docs }

\* the cursor frames among them
CursorFrames == {m \in InboundMessages : m.type = "cursor"}

\* ------------------------------------------------------------------ state
VARIABLES
    clients,    \* Hub.clients: document id -> set of client ids (a partial map)
    send,       \* Client.Send: the buffered outbound queue of each client
    closes,     \* how many times close(client.Send) ran for each client
    evicted,    \* clients the Hub removed on a full queue
    conn,       \* per connection: "none", "rejected", "open", "closed"
    cdoc,       \* Client.DocumentId
    cuser,      \* Client.UserId
    rp,         \* position of each read pump
    wp,         \* position of each write pump
    msg,        \* the message a read pump is processing
    txt,        \* the content applyEditToDocument read for each read pump
    events,     \* the events table, in insertion order
    content,    \* documents.content
    applyFailed,\* some persisted edit was not applied (SELECT or UPDATE failed)
    crashed,    \* an unrecovered panic ended the process
    aeIn,       \* applyEdit called on its own: the arguments
    aeOut,      \* ... and its result
    aePc,       \* ... and whether the call has been made
    haIn,       \* an access check called on its own: user, document, tables
    haOut,      \* ... and what each access check answered
    haPc,       \* ... and whether the call has been made
    bus,        \* what this instance has published on the Redis channels
    wire,       \* per client: the messages written to its connection, in order
    sent,       \* per client: the messages the Hub put into its queue, in order
    wbuf,       \* per client: the frame its write pump is assembling
    wn,         \* per client: n of the write pump's coalescing loop
    casts,      \* broadcasts the Hub has handled with the write pumps observed
    dqIn,       \* a document request handled on its own: the request, the tables
    dqOut,      \* ... the responses written and the tables afterwards
    dqPc,       \* ... and whether it has been handled
    mutex,      \* Hub.mutex: held for writing, number of read holders
    hpc,        \* the statement the Hub's goroutine is at
    hreq,       \* the request the Hub's goroutine is handling
    gpc,        \* the statement a GetDocumentClientCount caller is at
    hb          \* one connection's heartbeat: clock, read deadline, next ping

vars == <<clients, send, closes, evicted, conn, cdoc, cuser, rp, wp, msg, txt,
          events, content, applyFailed, crashed, aeIn, aeOut, aePc,
          haIn, haOut, haPc, bus, wire, sent, wbuf, wn, casts,
          dqIn, dqOut, dqPc, mutex, hpc, hreq, gpc, hb>>

hubVars  == <<clients, send, closes, evicted>>
dbVars   == <<events, content, applyFailed>>
aeVars   == <<aeIn, aeOut, aePc>>
haVars   == <<haIn, haOut, haPc>>
dqVars   == <<dqIn, dqOut, dqPc>>
callVars == <<aeVars, haVars, dqVars>>
lockVars == <<mutex, hpc, hreq, gpc>>
wrVars   == <<wire, sent, wbuf, wn, casts>>

\* ------------------------------------------------------- pure: applyEdit
\* Go slice expressions runes[:hi] and runes[lo:]; the caller checks bounds
Prefix(s, hi) == SubSeq(s, 1, hi)
Suffix(s, lo) == SubSeq(s, lo + 1, Len(s))

Returned(s) == [panic |-> FALSE, out |-> s]
Panicked    == [panic |-> TRUE, out |-> <<>>]

\* applyEdit whose default branch falls into the insert branch
applyEdit_DefaultInserts(c, edit) ==
    LET n == Len(c) IN
    CASE edit.operation = "delete" ->
            IF edit.position >= n THEN Returned(c)
            ELSE LET e0  == edit.position + edit.length
                     end == IF e0 > n THEN n ELSE e0
                 IN IF n - edit.length < 0 THEN Panicked
                    ELSE IF edit.position < 0 THEN Panicked
                    ELSE IF end < 0 THEN Panicked
                    ELSE Returned(Prefix(c, edit.position) \o Suffix(c, end))
      [] OTHER ->
            LET p == IF edit.position > n THEN n ELSE edit.position IN
            IF p < 0 THEN Panicked
            ELSE Returned(Prefix(c, p) \o edit.content \o Suffix(c, p))

\* applyEdit (handler.go 264-295).  A slice bound outside 0..len, or a negative
\* capacity given to make, is a run-time panic.
applyEdit(c, edit) ==
    LET n == Len(c) IN
    CASE edit.operation = "insert" ->
            LET p == IF edit.position > n THEN n ELSE edit.position IN
            IF p < 0 THEN Panicked
            ELSE Returned(Prefix(c, p) \o edit.content \o Suffix(c, p))
      [] edit.operation = "delete" ->
            IF edit.position >= n THEN Returned(c)
            ELSE LET e0  == edit.position + edit.length
                     end == IF e0 > n THEN n ELSE e0
                 IN IF n - edit.length < 0 THEN Panicked
                    ELSE IF edit.position < 0 THEN Panicked
                    ELSE IF end < 0 THEN Panicked
                    ELSE Returned(Prefix(c, edit.position) \o Suffix(c, end))
      [] OTHER -> Returned(c)

\* ------------------------------------------------------------ pure: Hub
\* the Hub's view of the world: registry, queues, close counts
HubState == [clients |-> clients, send |-> send, closes |-> closes,
             evicted |-> evicted, panic |-> FALSE]

Registered(h, d) == IF d \in DOMAIN h.clients THEN h.clients[d] ELSE {}

\* insert / delete on the two-level map
MapPut(m, d, s) == [x \in DOMAIN m \cup {d} |-> IF x = d THEN s ELSE m[x]]
MapDel(m, d)    == [x \in DOMAIN m \ {d} |-> m[x]]

\* GetDocumentClientCount (hub.go 147-155)
GetDocumentClientCount(d) ==
    IF d \in DOMAIN clients THEN Cardinality(clients[d]) ELSE 0

\* a non-blocking send "select { case ch <- data: default: }" succeeds iff
\* the buffer has room; on a closed channel it panics
HasRoom(h, c) == Len(h.send[c]) < SendCap

\* registerClient (hub.go 68-96)
registerClient(h, c, d, u) ==
    LET ins == MapPut(h.clients, d, Registered(h, d) \cup {c})
        confirmMsg == Message("connected", d, u, 0, NoPayload)
    IN IF h.closes[c] > 0
       THEN [h EXCEPT !.clients = ins, !.panic = TRUE]
       ELSE IF HasRoom(h, c)
       THEN [h EXCEPT !.clients = ins,
                      !.send[c] = Append(@, confirmMsg)]
       ELSE [h EXCEPT !.clients = MapPut(ins, d, ins[d] \ {c}),
                      !.closes[c] = @ + 1,
                      !.evicted = @ \cup {c}]

\* unregisterClient with the document's entry deleted whenever a client leaves
unregisterClient_DropsDocument(h, c, d) ==
    IF d \in DOMAIN h.clients /\ c \in h.clients[d]
    THEN [h EXCEPT !.clients = MapDel(h.clients, d),
                   !.closes[c] = @ + 1,
                   !.panic = (h.closes[c] > 0)]
    ELSE h

\* unregisterClient closing the queue and leaving the client in the set
unregisterClient_KeepsClient(h, c, d) ==
    IF d \in DOMAIN h.clients /\ c \in h.clients[d]
    THEN [h EXCEPT !.closes[c] = @ + 1,
                   !.panic = (h.closes[c] > 0)]
    ELSE h

\* unregisterClient (hub.go 98-116)
unregisterClient(h, c, d) ==
    IF d \in DOMAIN h.clients /\ c \in h.clients[d]
    THEN LET rest == h.clients[d] \ {c} IN
         [h EXCEPT !.clients = IF rest = {} THEN MapDel(h.clients, d)
                                ELSE MapPut(h.clients, d, rest),
                   !.closes[c] = @ + 1,
                   !.panic = (h.closes[c] > 0)]
    ELSE h

\* broadcastToDocument sending to the clients of every document
broadcastToDocument_AllDocuments(h, m) ==
    LET cs   == UNION {h.clients[d] : d \in DOMAIN h.clients}
        full == {c \in cs : ~HasRoom(h, c)}
    IN [h EXCEPT
          !.clients = [d \in DOMAIN h.clients |-> h.clients[d] \ full],
          !.send    = [c \in ClientIds |->
                         IF c \in cs \ full THEN Append(h.send[c], m)
                         ELSE h.send[c]],
          !.closes  = [c \in ClientIds |->
                         IF c \in full THEN h.closes[c] + 1 ELSE h.closes[c]],
          !.evicted = @ \cup full]

\* broadcastToDocument closing a full client's queue without deleting the
\* client from the document's set
broadcastToDocument_KeepsClosed(h, m) ==
    LET d == m.document_id IN
    IF d \notin DOMAIN h.clients THEN h
    ELSE LET cs   == h.clients[d]
             dead == {c \in cs : h.closes[c] > 0}
             full == {c \in cs : ~HasRoom(h, c)}
         IN [h EXCEPT
               !.send    = [c \in ClientIds |->
                              IF c \in cs \ (full \cup dead)
                              THEN Append(h.send[c], m) ELSE h.send[c]],
               !.closes  = [c \in ClientIds |->
                              IF c \in full THEN h.closes[c] + 1
                              ELSE h.closes[c]],
               !.evicted = @ \cup full,
               !.panic   = (dead # {})]

\* broadcastToDocument (hub.go 118-145).  The loop visits every client of
\* the document once; each send touches only that client's queue, so the
\* result does not depend on the map's iteration order.
broadcastToDocument(h, m) ==
    LET d == m.document_id IN
    IF d \notin DOMAIN h.clients THEN h
    ELSE LET cs   == h.clients[d]
             dead == {c \in cs : h.closes[c] > 0}
             full == {c \in cs : ~HasRoom(h, c)}
         IN [h EXCEPT
               !.clients = MapPut(h.clients, d, cs \ full),
               !.send    = [c \in ClientIds |->
                              IF c \in cs \ full THEN Append(h.send[c], m)
                              ELSE h.send[c]],
               !.closes  = [c \in ClientIds |->
                              IF c \in full THEN h.closes[c] + 1
                              ELSE h.closes[c]],
               !.evicted = @ \cup full,
               !.panic   = (dead # {})]

\* broadcastToDocumentExcept (part_006 177-204) after its snapshot of the
\* document's set; broadcastToDocument (part_006 148-175) is the same loop
\* with nobody left out (exceptClientId 0)
broadcastToDocumentExcept(h, m, exceptClientId) ==
    LET d == m.document_id IN
    IF d \notin DOMAIN h.clients THEN h
    ELSE LET cs   == h.clients[d] \ {exceptClientId}
             dead == {c \in cs : h.closes[c] > 0}
             full == {c \in cs : ~HasRoom(h, c)}
         IN [h EXCEPT
               !.clients = MapPut(h.clients, d, h.clients[d] \ full),
               !.send    = [c \in ClientIds |->
                              IF c \in cs \ full THEN Append(h.send[c], m)
                              ELSE h.send[c]],
               !.closes  = [c \in ClientIds |->
                              IF c \in full THEN h.closes[c] + 1
                              ELSE h.closes[c]],
               !.evicted = @ \cup full,
               !.panic   = (dead # {})]

\* registerClient (part_006 96-115): the confirmation to the new client
confirmClient(h, c, d, u) ==
    IF h.closes[c] > 0 THEN [h EXCEPT !.panic = TRUE]
    ELSE IF HasRoom(h, c)
    THEN [h EXCEPT !.send[c] = Append(@, Message("connected", d, u, 0,
                                                 NoPayload))]
    ELSE [h EXCEPT !.clients = MapPut(h.clients, d, Registered(h, d) \ {c}),
                   !.closes[c] = @ + 1,
                   !.evicted = @ \cup {c}]

\* unregisterClient (part_006 141-143): the document's entry goes with its
\* last client
dropEmpty(h, d) ==
    IF d \in DOMAIN h.clients /\ h.clients[d] = {}
    THEN [h EXCEPT !.clients = MapDel(h.clients, d)] ELSE h

\* the Hub finished a request: publish its state
HubBecomes(h) ==
    /\ clients' = h.clients
    /\ send'    = h.send
    /\ closes'  = h.closes
    /\ evicted' = h.evicted
    /\ crashed' = h.panic

\* RedisService.PublishMessage (part_004 50-59): the message goes out on the
\* channel named after its document
PublishMessage(b, m) == b \cup {[channel |-> m.document_id, data |-> m]}

\* sync.RWMutex (hub.go 41): nobody holds it; no request is being handled
Unlocked     == [writer |-> FALSE, readers |-> 0]
NoHubRequest == [kind |-> "", client |-> 0, doc |-> 0, msg |-> NoMessage]
\* a GetDocumentClientCount caller: not in a call, the last answer 0
NotCounting  == [pc |-> "idle", doc |-> 0, count |-> 0]

\* readPump's read deadline and writePump's ping period, in seconds
\* (handler.go 93, 95 and 126)
pongWait   == 60
pingPeriod == 54

\* no connection's heartbeat is being followed
NoHeartbeat == [mode |-> "none", state |-> "none", now |-> 0, deadline |-> 0,
                nextPing |-> 0, pong |-> FALSE]

\* ------------------------------------------------------- pure: database
\* getCurrentDocumentVersion (handler.go 217-230)
RECURSIVE MaxVersionUpTo(_, _, _)
MaxVersionUpTo(log, d, i) ==
    IF i = 0 THEN 0
    ELSE LET r    == log[i]
             prev == MaxVersionUpTo(log, d, i - 1)
         IN IF r.document_id = d /\ r.event_type = "edit" /\ r.version > prev
            THEN r.version ELSE prev

getCurrentDocumentVersion(d) == MaxVersionUpTo(events, d, Len(events))

\* hasDocumentAccess (handler.go 207-215)
hasDocumentAccess(u, d) == d \in Docs /\ OwnerOf(d) = u

\* ------------------------------------------------- pure: access checks
\* the document_collaborators table (migration 00004): at most one row for a
\* document and a user, its permission "view" or "edit"; "" is no row
CollabTables == [Docs \X Users -> {"", "view", "edit"}]

\* the table the running server holds: user 2 may view document 1
DocCollaborators ==
    [p \in Docs \X Users |-> IF p = <<1, 2>> THEN "view" ELSE ""]

\* DocumentService.GetCollaboratorPermission (part_009 448-463)
GetCollaboratorPermission(t, d, u) ==
    IF <<d, u>> \in DOMAIN t THEN t[<<d, u>>] ELSE ""

\* DocumentService.HasDocumentAccess (part_009 350-366): owner or collaborator
HasDocumentAccess(t, u, d) ==
    \/ d \in Docs /\ OwnerOf(d) = u
    \/ GetCollaboratorPermission(t, d, u) # ""

\* CreateDocumentEvent (events/handler.go 46-132) as a function of the caller,
\* the document, the event type and the outcome of its queries: the responses
\* it writes, in order, and whether it ran the INSERT.  u = 0 is a request
\* whose credential failed authentication.
validEventTypes ==
    {"text_insert", "text_delete", "text_replace", "cursor_move", "selection",
     "document_save"}

CreateDocumentEvent(t, u, d, eventType, dbOk, insOk) ==
    LET hasEditPermission ==
            OwnerOf(d) = u \/ GetCollaboratorPermission(t, d, u) = "edit"
    IN CASE u = 0            -> [responses |-> <<401>>, inserted |-> FALSE]
         [] d \notin Docs    -> [responses |-> <<404>>, inserted |-> FALSE]
         [] ~dbOk            -> [responses |-> <<500>>, inserted |-> FALSE]
         [] ~hasEditPermission -> [responses |-> <<403>>, inserted |-> FALSE]
         [] eventType \notin validEventTypes
                             -> [responses |-> <<400>>, inserted |-> FALSE]
         [] ~insOk           -> [responses |-> <<500, 201>>, inserted |-> FALSE]
         [] OTHER            -> [responses |-> <<201>>, inserted |-> TRUE]

\* HandleWebSocket up to the upgrade (handler.go 44-64) as a function of the
\* request: the error responses it writes, in order, and whether it goes on
\* to upgrade the connection.  A failed authentication leaves userId 0 and
\* is answered with 401, after which the handler goes on to the access check.
PreUpgrade(u, d, idOk, dbOk) ==
    IF ~idOk THEN [responses |-> <<400>>, admitted |-> FALSE]
    ELSE LET unauthorized == IF u = 0 THEN <<401>> ELSE <<>> IN
         IF ~(dbOk /\ hasDocumentAccess(u, d))
         THEN [responses |-> unauthorized \o <<403>>, admitted |-> FALSE]
         ELSE [responses |-> unauthorized, admitted |-> TRUE]

NoAccessCall == [user |-> 0, doc |-> 0, collab |-> DocCollaborators,
                 eventType |-> "", idOk |-> TRUE, dbOk |-> TRUE, insOk |-> TRUE]
NoAnswer     == [ws |-> FALSE, svc |-> FALSE,
                 http |-> [responses |-> <<>>, inserted |-> FALSE],
                 pre  |-> [responses |-> <<>>, admitted |-> FALSE]]

\* ---------------------------------------------- pure: document requests
\* the tables a document request reads and writes: the documents that exist
\* and their titles, the documents that have event rows, the collaborators
Titles == {"old", "new"}

DocTables(t, ev) ==
    [docs   |-> Docs,
     title  |-> [d \in Docs |-> "old"],
     events |-> ev,
     collab |-> t]

\* where a request's database round trips can fail: nowhere, in the access
\* query, in Begin, in one of the three DELETEs (the UPDATE fails where the
\* DELETE on documents does), in RowsAffected, in Commit
Failures ==
    {"none", "access", "begin", "events", "collab", "doc", "rows", "commit"}

\* DocumentService.DeleteDocument (part_009 282-318): the three DELETEs run in
\* one transaction; every return before Commit, and a failed Commit, leaves
\* the deferred Rollback to discard them
DeleteDocument_NoTransaction(db, d, failAt) ==
    LET s1 == [db EXCEPT !.events = @ \ {d}]
        s2 == [s1 EXCEPT !.collab =
                   [p \in DOMAIN @ |-> IF p[1] = d THEN "" ELSE @[p]]]
        s3 == [s2 EXCEPT !.docs = @ \ {d}]
    IN CASE failAt \in {"begin", "events"} -> [err |-> TRUE, db |-> db]
         [] failAt = "collab"              -> [err |-> TRUE, db |-> s1]
         [] failAt = "doc"                 -> [err |-> TRUE, db |-> s2]
         [] failAt = "rows"                -> [err |-> TRUE, db |-> s3]
         [] d \notin db.docs               -> [err |-> TRUE, db |-> s3]
         [] failAt = "commit"              -> [err |-> TRUE, db |-> s3]
         [] OTHER                          -> [err |-> FALSE, db |-> s3]

DeleteDocument(db, d, failAt) ==
    LET s1 == [db EXCEPT !.events = @ \ {d}]
        s2 == [s1 EXCEPT !.collab =
                   [p \in DOMAIN @ |-> IF p[1] = d THEN "" ELSE @[p]]]
        s3 == [s2 EXCEPT !.docs = @ \ {d}]
        rowsAffected == IF d \in s2.docs THEN 1 ELSE 0
        Rollback == [err |-> TRUE, db |-> db]
    IN CASE failAt \in {"begin", "events", "collab", "doc", "rows"} -> Rollback
         [] rowsAffected = 0                                        -> Rollback
         [] failAt = "commit"                                       -> Rollback
         [] OTHER -> [err |-> FALSE, db |-> s3]

\* DocumentService.UpdateDocumentTitle (part_009 264-280)
UpdateDocumentTitle(db, d, title, failAt) ==
    LET rowsAffected == IF d \in db.docs THEN 1 ELSE 0
        updated == IF d \in db.docs
                   THEN [db EXCEPT !.title[d] = title] ELSE db
    IN CASE failAt = "doc"   -> [err |-> TRUE, db |-> db]
         [] failAt = "rows"  -> [err |-> TRUE, db |-> updated]
         [] rowsAffected = 0 -> [err |-> TRUE, db |-> db]
         [] OTHER            -> [err |-> FALSE, db |-> updated]

\* what a handler of documents/handler.go does before it calls the service:
\* 401 without a user, 500 when the access query fails, 401 when
\* HasDocumentAccess answers false; 0 is "go on"
DocumentGate(db, u, d, failAt) ==
    CASE u = 0            -> 401
      [] failAt = "access" -> 500
      [] ~HasDocumentAccess(db.collab, u, d) -> 401
      [] OTHER            -> 0

\* DocumentHandler.DeleteDocument (documents/handler.go 198-228)
HandleDeleteDocument(db, u, d, failAt) ==
    LET gate == DocumentGate(db, u, d, failAt)
        done == DeleteDocument(db, d, failAt)
    IN IF gate # 0 THEN [status |-> gate, db |-> db]
       ELSE [status |-> IF done.err THEN 500 ELSE 200, db |-> done.db]

\* DocumentHandler.UpdateDocument (documents/handler.go 143-182)
HandleUpdateDocument(db, u, d, title, failAt) ==
    LET gate == DocumentGate(db, u, d, failAt)
        done == UpdateDocumentTitle(db, d, title, failAt)
    IN IF gate # 0 THEN [status |-> gate, db |-> db]
       ELSE [status |-> IF done.err THEN 500 ELSE 200, db |-> done.db]

\* a row of document_collaborators (migration 00004)
CollabRow(d, u, p) == [document_id |-> d, user_id |-> u, permission |-> p]

\* the rows of the table that are about document d and user u
RowsFor(rows, d, u) ==
    {i \in 1..Len(rows) : rows[i].document_id = d /\ rows[i].user_id = u}

\* AddCollaborator with a plain INSERT into a table without the UNIQUE
\* constraint
AddCollaborator_PlainInsert(rows, d, u, permission, ok) ==
    IF permission \notin {"view", "edit"} THEN [err |-> TRUE, rows |-> rows]
    ELSE IF ~ok \/ d \notin Docs \/ u \notin Users
    THEN [err |-> TRUE, rows |-> rows]
    ELSE [err |-> FALSE, rows |-> Append(rows, CollabRow(d, u, permission))]

\* DocumentService.AddCollaborator (part_009 381-398): the permission is
\* checked, then INSERT ... ON CONFLICT (document_id, user_id) DO UPDATE SET
\* permission.  The statement fails when the database does, or when the
\* document or the user does not exist (the table's foreign keys).
AddCollaborator(rows, d, u, permission, ok) ==
    IF permission \notin {"view", "edit"} THEN [err |-> TRUE, rows |-> rows]
    ELSE IF ~ok \/ d \notin Docs \/ u \notin Users
    THEN [err |-> TRUE, rows |-> rows]
    ELSE IF RowsFor(rows, d, u) # {}
    THEN [err |-> FALSE,
          rows |-> [i \in 1..Len(rows) |->
                      IF i \in RowsFor(rows, d, u)
                      THEN [rows[i] EXCEPT !.permission = permission]
                      ELSE rows[i]]]
    ELSE [err |-> FALSE, rows |-> Append(rows, CollabRow(d, u, permission))]

NoRequest == [user |-> 0, doc |-> 0, db |-> DocTables(DocCollaborators, {}),
              title |-> "old", failAt |-> "none"]
NoOutcome == [delete |-> [status |-> 0, db |-> NoRequest.db],
              update |-> [status |-> 0, db |-> NoRequest.db],
              svc    |-> [err |-> FALSE, db |-> NoRequest.db]]

\* --------------------------------------------------------------- initial
Init ==
    /\ clients = << >>
    /\ send    = [c \in ClientIds |-> <<>>]
    /\ closes  = [c \in ClientIds |-> 0]
    /\ evicted = {}
    /\ conn    = [c \in ClientIds |-> "none"]
    /\ cdoc    = [c \in ClientIds |-> 0]
    /\ cuser   = [c \in ClientIds |-> 0]
    /\ rp      = [c \in ClientIds |-> "none"]
    /\ wp      = [c \in ClientIds |-> "none"]
    /\ msg     = [c \in ClientIds |-> NoMessage]
    /\ txt     = [c \in ClientIds |-> <<>>]
    /\ events  = <<>>
    /\ content = [d \in Docs |-> <<>>]
    /\ applyFailed = FALSE
    /\ crashed = FALSE
    /\ aeIn    = [content |-> <<>>, edit |-> NoEdit]
    /\ aeOut   = Returned(<<>>)
    /\ aePc    = "idle"
    /\ haIn    = NoAccessCall
    /\ haOut   = NoAnswer
    /\ haPc    = "idle"
    /\ bus     = {}
    /\ wire    = [c \in ClientIds |-> <<>>]
    /\ sent    = [c \in ClientIds |-> <<>>]
    /\ wbuf    = [c \in ClientIds |-> <<>>]
    /\ wn      = [c \in ClientIds |-> 0]
    /\ casts   = 0
    /\ dqIn    = NoRequest
    /\ dqOut   = NoOutcome
    /\ dqPc    = "idle"
    /\ mutex   = Unlocked
    /\ hpc     = "select"
    /\ hreq    = NoHubRequest
    /\ gpc     = NotCounting
    /\ hb      = NoHeartbeat


\* ------------------------------------------------- connection acceptance
\* HandleWebSocket (handler.go 44-84).  u = 0 is a request whose credential
\* failed authentication: the handler answers 401 and goes on with userId 0.
\* The client is created with a fresh id and an empty queue, handed to the
\* Hub over the register channel, and both pumps are started.
HandleWebSocket(c, d, u, upgraded) ==
    /\ ~crashed
    /\ conn[c] = "none"
    /\ \A b \in ClientIds : b < c => conn[b] # "none"
    /\ IF hasDocumentAccess(u, d) /\ upgraded
       THEN /\ conn'  = [conn EXCEPT ![c] = "open"]
            /\ cdoc'  = [cdoc EXCEPT ![c] = d]
            /\ cuser' = [cuser EXCEPT ![c] = u]
            /\ HubBecomes(registerClient(HubState, c, d, u))
            /\ rp'    = [rp EXCEPT ![c] = "read"]
            /\ wp'    = [wp EXCEPT ![c] = "select"]
       ELSE /\ conn'  = [conn EXCEPT ![c] = "rejected"]
            /\ UNCHANGED <<cdoc, cuser, rp, wp, hubVars, crashed>>
    /\ UNCHANGED <<msg, txt, dbVars, callVars, bus, hb, wrVars, lockVars>>

\* --------------------------------------------------------------- readPump
\* edits that are being processed or are already in the log
EditsTaken ==
    Len(events) + Cardinality({c \in ClientIds : rp[c] = "persist"})

\* readPump stamping a cursor message with the next version, as it does an edit
ReadMessage_StampsCursor(c, m, ok) ==
    /\ ~crashed
    /\ rp[c] = "read"
    /\ conn[c] = "open"
    /\ CASE m.type = "edit" /\ m.payload.kind = "edit" ->
              /\ IF ok
                 THEN /\ rp'  = [rp EXCEPT ![c] = "persist"]
                      /\ msg' = [msg EXCEPT ![c] =
                                   [m EXCEPT !.version =
                                      getCurrentDocumentVersion(m.document_id) + 1]]
                 ELSE /\ rp'  = [rp EXCEPT ![c] = "version_failed"]
                      /\ msg' = msg
         [] m.type = "cursor" ->
              /\ rp'  = [rp EXCEPT ![c] = "broadcast"]
              /\ msg' = [msg EXCEPT ![c] =
                           [m EXCEPT !.version =
                              getCurrentDocumentVersion(m.document_id) + 1]]
         [] OTHER -> UNCHANGED <<rp, msg>>
    /\ UNCHANGED <<hubVars, conn, cdoc, cuser, wp, txt, dbVars, crashed, callVars, bus, hb, wrVars, lockVars>>

\* readPump (handler.go 99-122) reads one frame and dispatches it.
\*  - bytes that are not JSON, and a message of unknown type, are logged and
\*    skipped;
\*  - "cursor": handleCursorMessage (203-205) is entered with the message as
\*    the client sent it;
\*  - "edit": handleEditMessage (166-186) decodes the payload, reads the
\*    highest version of message.DocumentId and stamps the message with it
\*    plus one; a payload that does not decode, or a failed lookup, ends the
\*    handling of the message.
ReadMessage(c, m, ok) ==
    /\ ~crashed
    /\ rp[c] = "read"
    /\ conn[c] = "open"
    /\ CASE m.type = "edit" /\ m.payload.kind = "edit" ->
              /\ IF ok
                 THEN /\ rp'  = [rp EXCEPT ![c] = "persist"]
                      /\ msg' = [msg EXCEPT ![c] =
                                   [m EXCEPT !.version =
                                      getCurrentDocumentVersion(m.document_id) + 1]]
                 ELSE /\ rp'  = [rp EXCEPT ![c] = "version_failed"]
                      /\ msg' = msg
         [] m.type = "cursor" ->
              /\ rp'  = [rp EXCEPT ![c] = "broadcast"]
              /\ msg' = [msg EXCEPT ![c] = m]
         [] OTHER -> UNCHANGED <<rp, msg>>
    /\ UNCHANGED <<hubVars, conn, cdoc, cuser, wp, txt, dbVars, crashed, callVars, bus, hb, wrVars, lockVars>>

\* the row persistEvent inserts (handler.go 232-249)
EventRow(m) ==
    [document_id |-> m.document_id, user_id |-> m.user_id,
     event_type |-> m.type, version |-> m.version, edit |-> m.payload.edit]

\* persistEvent's error ignored: the handler goes on to apply the edit
PersistEvent_NoReturn(c, ok) ==
    /\ ~crashed
    /\ rp[c] = "persist"
    /\ events' = IF ok THEN Append(events, EventRow(msg[c])) ELSE events
    /\ rp'     = [rp EXCEPT ![c] = "apply_read"]
    /\ UNCHANGED <<hubVars, conn, cdoc, cuser, wp, msg, txt, content,
                   applyFailed, crashed, callVars, bus, hb, wrVars, lockVars>>

\* handleEditMessage (188-191): persistEvent
PersistEvent(c, ok) ==
    /\ ~crashed
    /\ rp[c] = "persist"
    /\ IF ok
       THEN /\ events' = Append(events, EventRow(msg[c]))
            /\ rp'     = [rp EXCEPT ![c] = "apply_read"]
            /\ msg'    = msg
       ELSE /\ events' = events
            /\ rp'     = [rp EXCEPT ![c] = "persist_failed"]
            /\ msg'    = [msg EXCEPT ![c] = NoMessage]
    /\ UNCHANGED <<hubVars, conn, cdoc, cuser, wp, txt, content, applyFailed,
                   crashed, callVars, bus, hb, wrVars, lockVars>>

\* applyEditToDocument (251-256): SELECT content
ApplyRead(c, ok) ==
    /\ ~crashed
    /\ rp[c] = "apply_read"
    /\ IF ok
       THEN /\ txt' = [txt EXCEPT ![c] = content[msg[c].document_id]]
            /\ rp'  = [rp EXCEPT ![c] = "apply_write"]
            /\ msg' = msg
            /\ applyFailed' = applyFailed
       ELSE /\ txt' = txt
            /\ rp'  = [rp EXCEPT ![c] = "apply_failed"]
            /\ msg' = [msg EXCEPT ![c] = NoMessage]
            /\ applyFailed' = TRUE
    /\ UNCHANGED <<hubVars, conn, cdoc, cuser, wp, events, content, crashed,
                   callVars, bus, hb, wrVars, lockVars>>

\* applyEditToDocument (258-261): applyEdit, then UPDATE content.  A panic in
\* applyEdit is not recovered in the read pump's goroutine.
ApplyWrite(c, ok) ==
    /\ ~crashed
    /\ rp[c] = "apply_write"
    /\ LET r == applyEdit(txt[c], msg[c].payload.edit)
           d == msg[c].document_id
       IN IF r.panic
          THEN /\ crashed' = TRUE
               /\ UNCHANGED <<content, applyFailed, rp, msg, txt>>
          ELSE /\ crashed' = FALSE
               /\ txt' = [txt EXCEPT ![c] = <<>>]
               /\ IF ok
                  THEN /\ content' = [content EXCEPT ![d] = r.out]
                       /\ applyFailed' = applyFailed
                       /\ rp'      = [rp EXCEPT ![c] = "broadcast"]
                       /\ msg'     = msg
                  ELSE /\ content' = content
                       /\ applyFailed' = TRUE
                       /\ rp'      = [rp EXCEPT ![c] = "apply_failed"]
                       /\ msg'     = [msg EXCEPT ![c] = NoMessage]
    /\ UNCHANGED <<hubVars, conn, cdoc, cuser, wp, events, callVars, bus, hb, wrVars, lockVars>>

\* handleEditMessage (198-200), handleCursorMessage (203-205):
\* BroadcastMessage hands the message to the Hub's broadcast channel, the Hub
\* runs broadcastToDocument, and the handler returns to the read loop
BroadcastMessage(c) ==
    /\ ~crashed
    /\ rp[c] = "broadcast"
    /\ HubBecomes(broadcastToDocument(HubState, msg[c]))
    /\ rp'  = [rp EXCEPT ![c] = "read"]
    /\ msg' = [msg EXCEPT ![c] = NoMessage]
    /\ UNCHANGED <<conn, cdoc, cuser, wp, txt, dbVars, callVars, bus, hb, wrVars, lockVars>>

\* handleEditMessage (181-184, 188-191, 193-196): the failure is logged and
\* the handler returns to the read loop
FailedPcs == {"version_failed", "persist_failed", "apply_failed"}

LogAndReturn(c) ==
    /\ ~crashed
    /\ rp[c] \in FailedPcs
    /\ rp' = [rp EXCEPT ![c] = "read"]
    /\ UNCHANGED <<hubVars, conn, cdoc, cuser, wp, msg, txt, dbVars, crashed,
                   callVars, bus, hb, wrVars, lockVars>>

\* readPump (100-106, 87-90): ReadMessage fails (peer closed, idle deadline,
\* frame over the read limit, connection closed by the write pump); the
\* deferred function sends the client to the Hub's unregister channel, the
\* Hub runs unregisterClient, and the connection is closed
ReadPumpExit(c) ==
    /\ ~crashed
    /\ rp[c] = "read"
    /\ HubBecomes(unregisterClient(HubState, c, cdoc[c]))
    /\ rp'   = [rp EXCEPT ![c] = "done"]
    /\ conn' = [conn EXCEPT ![c] = "closed"]
    /\ UNCHANGED <<cdoc, cuser, wp, msg, txt, dbVars, callVars, bus, hb, wrVars, lockVars>>

\* -------------------------------------------------------------- writePump
\* writePump (134-155): a message is received from the queue, the messages
\* queued by now are added to the same frame and the frame is flushed; when
\* the write fails the pump returns and closes the connection
WritePumpWrite(c, ok) ==
    /\ ~crashed
    /\ wp[c] = "select"
    /\ send[c] # <<>>
    /\ send' = [send EXCEPT ![c] = <<>>]
    /\ IF ok /\ conn[c] = "open"
       THEN UNCHANGED <<wp, conn>>
       ELSE /\ wp' = [wp EXCEPT ![c] = "done"]
            /\ conn' = [conn EXCEPT ![c] = "closed"]
    /\ UNCHANGED <<clients, closes, evicted, cdoc, cuser, rp, msg, txt,
                   dbVars, crashed, callVars, bus, hb, wrVars, lockVars>>

\* writePump returning without closing the connection
WritePumpExit_LeavesOpen(c) ==
    /\ ~crashed
    /\ wp[c] = "select"
    /\ (send[c] = <<>> /\ closes[c] > 0) \/ conn[c] = "closed"
    /\ wp'   = [wp EXCEPT ![c] = "done"]
    /\ UNCHANGED <<hubVars, conn, cdoc, cuser, rp, msg, txt, dbVars, crashed,
                   callVars, bus, hb, wrVars, lockVars>>

\* writePump (136-139, 157-161): the queue is closed and drained, or a ping
\* could not be written: the pump returns and closes the connection
WritePumpExit(c) ==
    /\ ~crashed
    /\ wp[c] = "select"
    /\ (send[c] = <<>> /\ closes[c] > 0) \/ conn[c] = "closed"
    /\ wp'   = [wp EXCEPT ![c] = "done"]
    /\ conn' = [conn EXCEPT ![c] = "closed"]
    /\ UNCHANGED <<hubVars, cdoc, cuser, rp, msg, txt, dbVars, crashed, callVars, bus, hb, wrVars, lockVars>>

\* ------------------------------------------------------------------- next
Next ==
    \/ \E c \in ClientIds, d \in Docs, u \in Users \cup {0}, up \in BOOLEAN :
           HandleWebSocket(c, d, u, up)
    \/ \E c \in ClientIds, m \in InboundMessages, ok \in BOOLEAN :
           /\ m.type = "edit" => EditsTaken < MaxEvents
           /\ ReadMessage(c, m, ok)
    \/ \E c \in ClientIds, ok \in BOOLEAN : PersistEvent(c, ok)
    \/ \E c \in ClientIds, ok \in BOOLEAN : ApplyRead(c, ok)
    \/ \E c \in ClientIds, ok \in BOOLEAN : ApplyWrite(c, ok)
    \/ \E c \in ClientIds : BroadcastMessage(c)
    \/ \E c \in ClientIds : LogAndReturn(c)
    \/ \E c \in ClientIds : ReadPumpExit(c)
    \/ \E c \in ClientIds, ok \in BOOLEAN : WritePumpWrite(c, ok)
    \/ \E c \in ClientIds : WritePumpExit(c)

Spec == Init /\ [][Next]_vars

\* The edit pipeline under concurrent writers: every connection submits edit
\* frames, up to MaxEdits of them altogether.
EditFrames == {m \in InboundMessages : m.type = "edit" /\ m.payload.kind = "edit"}

NextEdit ==
    \/ \E c \in ClientIds, d \in Docs, u \in Users, up \in BOOLEAN :
           HandleWebSocket(c, d, u, up)
    \/ \E c \in ClientIds, m \in EditFrames, ok \in BOOLEAN :
           /\ EditsTaken < MaxEdits
           /\ ReadMessage(c, m, ok)
    \/ \E c \in ClientIds, ok \in BOOLEAN : PersistEvent(c, ok)
    \/ \E c \in ClientIds, ok \in BOOLEAN : ApplyRead(c, ok)
    \/ \E c \in ClientIds, ok \in BOOLEAN : ApplyWrite(c, ok)
    \/ \E c \in ClientIds : BroadcastMessage(c)
    \/ \E c \in ClientIds : LogAndReturn(c)
    \/ \E c \in ClientIds : ReadPumpExit(c)
    \/ \E c \in ClientIds, ok \in BOOLEAN : WritePumpWrite(c, ok)
    \/ \E c \in ClientIds : WritePumpExit(c)

SpecEdit == Init /\ [][NextEdit]_vars

\* ----------------------------------------------- applyEdit on its own
\* applyEdit is a function of its two arguments; it is called once on every
\* content and edit drawn from the bounded sets below.
Strings(n) == UNION {[1..k -> Chars] : k \in 0..n}

ApplyInputs ==
    [content : Strings(MaxLen),
     edit : [operation : {"insert", "delete", "upper"},
             position  : (-1)..MaxPos,
             content   : Strings(MaxLen),
             length    : (-1)..MaxPos]]

InitApply ==
    /\ clients = << >>
    /\ send    = [c \in ClientIds |-> <<>>]
    /\ closes  = [c \in ClientIds |-> 0]
    /\ evicted = {}
    /\ conn    = [c \in ClientIds |-> "none"]
    /\ cdoc    = [c \in ClientIds |-> 0]
    /\ cuser   = [c \in ClientIds |-> 0]
    /\ rp      = [c \in ClientIds |-> "none"]
    /\ wp      = [c \in ClientIds |-> "none"]
    /\ msg     = [c \in ClientIds |-> NoMessage]
    /\ txt     = [c \in ClientIds |-> <<>>]
    /\ events  = <<>>
    /\ content = [d \in Docs |-> <<>>]
    /\ applyFailed = FALSE
    /\ crashed = FALSE
    /\ aeIn \in ApplyInputs
    /\ aeOut   = Returned(<<>>)
    /\ aePc    = "call"
    /\ haIn    = NoAccessCall
    /\ haOut   = NoAnswer
    /\ haPc    = "idle"
    /\ bus     = {}
    /\ wire    = [c \in ClientIds |-> <<>>]
    /\ sent    = [c \in ClientIds |-> <<>>]
    /\ wbuf    = [c \in ClientIds |-> <<>>]
    /\ wn      = [c \in ClientIds |-> 0]
    /\ casts   = 0
    /\ dqIn    = NoRequest
    /\ dqOut   = NoOutcome
    /\ dqPc    = "idle"
    /\ mutex   = Unlocked
    /\ hpc     = "select"
    /\ hreq    = NoHubRequest
    /\ gpc     = NotCounting
    /\ hb      = NoHeartbeat

ApplyEditCall ==
    /\ aePc = "call"
    /\ aeOut' = applyEdit(aeIn.content, aeIn.edit)
    /\ aePc'  = "done"
    /\ UNCHANGED <<hubVars, conn, cdoc, cuser, rp, wp, msg, txt, dbVars,
                   crashed, aeIn, haVars, dqVars, bus, hb, wrVars, lockVars>>

NextApply == ApplyEditCall

SpecApply == InitApply /\ [][NextApply]_vars

\* ------------------------------------------ access checks on their own
\* Every access check is a function of the caller, the document and the
\* tables; each is called once on every input drawn from the sets below.
\* Document MaxDocs + 1 does not exist.
AccessInputs ==
    [user : Users \cup {0}, doc : 1..(MaxDocs + 1), collab : CollabTables,
     eventType : {"text_insert", "edit"}, idOk : BOOLEAN, dbOk : BOOLEAN,
     insOk : BOOLEAN]

InitAccess ==
    /\ clients = << >>
    /\ send    = [c \in ClientIds |-> <<>>]
    /\ closes  = [c \in ClientIds |-> 0]
    /\ evicted = {}
    /\ conn    = [c \in ClientIds |-> "none"]
    /\ cdoc    = [c \in ClientIds |-> 0]
    /\ cuser   = [c \in ClientIds |-> 0]
    /\ rp      = [c \in ClientIds |-> "none"]
    /\ wp      = [c \in ClientIds |-> "none"]
    /\ msg     = [c \in ClientIds |-> NoMessage]
    /\ txt     = [c \in ClientIds |-> <<>>]
    /\ events  = <<>>
    /\ content = [d \in Docs |-> <<>>]
    /\ applyFailed = FALSE
    /\ crashed = FALSE
    /\ aeIn    = [content |-> <<>>, edit |-> NoEdit]
    /\ aeOut   = Returned(<<>>)
    /\ aePc    = "idle"
    /\ haIn \in AccessInputs
    /\ haOut   = NoAnswer
    /\ haPc    = "call"
    /\ bus     = {}
    /\ wire    = [c \in ClientIds |-> <<>>]
    /\ sent    = [c \in ClientIds |-> <<>>]
    /\ wbuf    = [c \in ClientIds |-> <<>>]
    /\ wn      = [c \in ClientIds |-> 0]
    /\ casts   = 0
    /\ dqIn    = NoRequest
    /\ dqOut   = NoOutcome
    /\ dqPc    = "idle"
    /\ mutex   = Unlocked
    /\ hpc     = "select"
    /\ hreq    = NoHubRequest
    /\ gpc     = NotCounting
    /\ hb      = NoHeartbeat

\* the WebSocket handler's check answers false when its query fails
\* (handler.go 210-212), the service's check returns false with the error
\* (part_009 361-363)
AccessCall ==
    /\ haPc = "call"
    /\ haOut' =
         [ws   |-> haIn.dbOk /\ hasDocumentAccess(haIn.user, haIn.doc),
          svc  |-> haIn.dbOk /\ HasDocumentAccess(haIn.collab, haIn.user, haIn.doc),
          http |-> CreateDocumentEvent(haIn.collab, haIn.user, haIn.doc,
                                       haIn.eventType, haIn.dbOk, haIn.insOk),
          pre  |-> PreUpgrade(haIn.user, haIn.doc, haIn.idOk, haIn.dbOk)]
    /\ haPc' = "done"
    /\ UNCHANGED <<hubVars, conn, cdoc, cuser, rp, wp, msg, txt, dbVars,
                   crashed, aeVars, haIn, dqVars, bus, hb, wrVars, lockVars>>

NextAccess == AccessCall

SpecAccess == InitAccess /\ [][NextAccess]_vars

\* --------------------------------------- document requests on their own
\* One DELETE and one PATCH /documents/:id of the same caller against the
\* same tables, and DeleteDocument called on them directly (it is also given
\* documents that do not exist: the handlers' gate never lets those through).
DocRequests ==
    [user : Users \cup {0}, doc : 1..(MaxDocs + 1),
     db : {DocTables(t, ev) : t \in CollabTables, ev \in SUBSET Docs},
     title : {"new"}, failAt : Failures]

InitDocs ==
    /\ clients = << >>
    /\ send    = [c \in ClientIds |-> <<>>]
    /\ closes  = [c \in ClientIds |-> 0]
    /\ evicted = {}
    /\ conn    = [c \in ClientIds |-> "none"]
    /\ cdoc    = [c \in ClientIds |-> 0]
    /\ cuser   = [c \in ClientIds |-> 0]
    /\ rp      = [c \in ClientIds |-> "none"]
    /\ wp      = [c \in ClientIds |-> "none"]
    /\ msg     = [c \in ClientIds |-> NoMessage]
    /\ txt     = [c \in ClientIds |-> <<>>]
    /\ events  = <<>>
    /\ content = [d \in Docs |-> <<>>]
    /\ applyFailed = FALSE
    /\ crashed = FALSE
    /\ aeIn    = [content |-> <<>>, edit |-> NoEdit]
    /\ aeOut   = Returned(<<>>)
    /\ aePc    = "idle"
    /\ haIn    = NoAccessCall
    /\ haOut   = NoAnswer
    /\ haPc    = "idle"
    /\ bus     = {}
    /\ wire    = [c \in ClientIds |-> <<>>]
    /\ sent    = [c \in ClientIds |-> <<>>]
    /\ wbuf    = [c \in ClientIds |-> <<>>]
    /\ wn      = [c \in ClientIds |-> 0]
    /\ casts   = 0
    /\ dqIn \in DocRequests
    /\ dqOut   = NoOutcome
    /\ dqPc    = "call"
    /\ mutex   = Unlocked
    /\ hpc     = "select"
    /\ hreq    = NoHubRequest
    /\ gpc     = NotCounting
    /\ hb      = NoHeartbeat

DocumentCall ==
    /\ dqPc = "call"
    /\ dqOut' =
         [delete |-> HandleDeleteDocument(dqIn.db, dqIn.user, dqIn.doc,
                                          dqIn.failAt),
          update |-> HandleUpdateDocument(dqIn.db, dqIn.user, dqIn.doc,
                                          dqIn.title, dqIn.failAt),
          svc    |-> DeleteDocument(dqIn.db, dqIn.doc, dqIn.failAt)]
    /\ dqPc' = "done"
    /\ UNCHANGED <<hubVars, conn, cdoc, cuser, rp, wp, msg, txt, dbVars,
                   crashed, aeVars, haVars, dqIn, bus, hb, wrVars, lockVars>>

NextDocs == DocumentCall

SpecDocs == InitDocs /\ [][NextDocs]_vars

\* ------------------------------------- the write pump against the Hub
\* The Hub's requests are the inputs, the write pump (handler.go 125-164)
\* runs statement by statement: the Hub can enqueue between any two of them.
\* Broadcast messages are numbered in their version field, so that any two
\* of them differ.

\* the Hub finished a request: publish its state, and note what it enqueued
\* (every operation of the Hub appends at most one message to a queue)
HubEnqueues(h) ==
    /\ HubBecomes(h)
    /\ sent' = [c \in ClientIds |->
                  IF Len(h.send[c]) > Len(send[c])
                  THEN Append(sent[c], h.send[c][Len(h.send[c])])
                  ELSE sent[c]]

\* Hub.Run (hub.go 57-58): case client := <-h.register, from HandleWebSocket
\* (handler.go 71-83)
HubRegister(c, d) ==
    /\ ~crashed
    /\ conn[c] = "none"
    /\ \A b \in ClientIds : b < c => conn[b] # "none"
    /\ conn'  = [conn EXCEPT ![c] = "open"]
    /\ cdoc'  = [cdoc EXCEPT ![c] = d]
    /\ cuser' = [cuser EXCEPT ![c] = OwnerOf(d)]
    /\ HubEnqueues(registerClient(HubState, c, d, OwnerOf(d)))
    /\ rp'    = [rp EXCEPT ![c] = "read"]
    /\ wp'    = [wp EXCEPT ![c] = "select"]
    /\ UNCHANGED <<msg, txt, dbVars, callVars, bus, hb, wire, wbuf, wn, casts, lockVars>>

\* Hub.Run (hub.go 61-62): case message := <-h.broadcast, handed over by the
\* read pump of some open connection
HubBroadcast(d) ==
    /\ ~crashed
    /\ casts < MaxCasts
    /\ \E c \in ClientIds : rp[c] = "read" /\ conn[c] = "open"
    /\ HubEnqueues(broadcastToDocument(HubState,
           Message("cursor", d, OwnerOf(d), casts + 1, CursorPayload)))
    /\ casts' = casts + 1
    /\ UNCHANGED <<conn, cdoc, cuser, rp, wp, msg, txt, dbVars, callVars, bus, hb,
                   wire, wbuf, wn, lockVars>>

\* Hub.Run (hub.go 59-60): case client := <-h.unregister, from the read
\* pump's deferred function (handler.go 87-90)
HubUnregister(c) ==
    /\ ~crashed
    /\ rp[c] = "read"
    /\ HubEnqueues(unregisterClient(HubState, c, cdoc[c]))
    /\ rp'   = [rp EXCEPT ![c] = "done"]
    /\ conn' = [conn EXCEPT ![c] = "closed"]
    /\ UNCHANGED <<cdoc, cuser, wp, msg, txt, dbVars, callVars, bus, hb,
                   wire, wbuf, wn, casts, lockVars>>

\* writePump (134-145): a message is received from the queue and becomes the
\* start of a frame; when NextWriter fails the pump returns
WpRecv(c, ok) ==
    /\ ~crashed
    /\ wp[c] = "select"
    /\ send[c] # <<>>
    /\ send' = [send EXCEPT ![c] = Tail(@)]
    /\ IF ok /\ conn[c] = "open"
       THEN /\ wbuf' = [wbuf EXCEPT ![c] = <<Head(send[c])>>]
            /\ wp'   = [wp EXCEPT ![c] = "len"]
            /\ conn' = conn
       ELSE /\ wbuf' = wbuf
            /\ wp'   = [wp EXCEPT ![c] = "done"]
            /\ conn' = [conn EXCEPT ![c] = "closed"]
    /\ UNCHANGED <<clients, closes, evicted, cdoc, cuser, rp, msg, txt, dbVars,
                   crashed, callVars, bus, hb, wire, sent, wn, casts, lockVars>>

\* writePump (147): n := len(c.Send)
WpLen(c) ==
    /\ ~crashed
    /\ wp[c] = "len"
    /\ wn' = [wn EXCEPT ![c] = Len(send[c])]
    /\ wp' = [wp EXCEPT ![c] = "loop"]
    /\ UNCHANGED <<hubVars, conn, cdoc, cuser, rp, msg, txt, dbVars, crashed,
                   callVars, bus, hb, wire, sent, wbuf, casts, lockVars>>

\* the coalescing loop receiving a message without writing it
WpNext_Skips(c) ==
    /\ ~crashed
    /\ wp[c] = "loop"
    /\ wn[c] > 0
    /\ send' = [send EXCEPT ![c] = Tail(@)]
    /\ wn'   = [wn EXCEPT ![c] = @ - 1]
    /\ UNCHANGED <<clients, closes, evicted, conn, cdoc, cuser, rp, wp, msg,
                   txt, dbVars, crashed, callVars, bus, hb, wire, sent, wbuf, casts,
                   lockVars>>

\* writePump (148-151): one round of the loop, w.Write(<-c.Send)
WpNext(c) ==
    /\ ~crashed
    /\ wp[c] = "loop"
    /\ wn[c] > 0
    /\ send' = [send EXCEPT ![c] = Tail(@)]
    /\ wbuf' = [wbuf EXCEPT ![c] = Append(@, Head(send[c]))]
    /\ wn'   = [wn EXCEPT ![c] = @ - 1]
    /\ UNCHANGED <<clients, closes, evicted, conn, cdoc, cuser, rp, wp, msg,
                   txt, dbVars, crashed, callVars, bus, hb, wire, sent, casts,
                   lockVars>>

\* writePump (153-155): w.Close() sends the frame; when it fails the pump
\* returns and the frame is not delivered
WpFlush(c, ok) ==
    /\ ~crashed
    /\ wp[c] = "loop"
    /\ wn[c] = 0
    /\ wbuf' = [wbuf EXCEPT ![c] = <<>>]
    /\ IF ok /\ conn[c] = "open"
       THEN /\ wire' = [wire EXCEPT ![c] = @ \o wbuf[c]]
            /\ wp'   = [wp EXCEPT ![c] = "select"]
            /\ conn' = conn
       ELSE /\ wire' = wire
            /\ wp'   = [wp EXCEPT ![c] = "done"]
            /\ conn' = [conn EXCEPT ![c] = "closed"]
    /\ UNCHANGED <<hubVars, cdoc, cuser, rp, msg, txt, dbVars, crashed,
                   callVars, bus, hb, sent, wn, casts, lockVars>>

\* writePump (136-139, 157-161): the queue is closed and drained, or a ping
\* cannot be written: the pump returns and closes the connection
WpReturn(c) ==
    /\ ~crashed
    /\ wp[c] = "select"
    /\ (send[c] = <<>> /\ closes[c] > 0) \/ conn[c] = "closed"
    /\ wp'   = [wp EXCEPT ![c] = "done"]
    /\ conn' = [conn EXCEPT ![c] = "closed"]
    /\ UNCHANGED <<hubVars, cdoc, cuser, rp, msg, txt, dbVars, crashed,
                   callVars, bus, hb, wrVars, lockVars>>

NextWrite ==
    \/ \E c \in ClientIds, d \in Docs : HubRegister(c, d)
    \/ \E d \in Docs : HubBroadcast(d)
    \/ \E c \in ClientIds : HubUnregister(c)
    \/ \E c \in ClientIds, ok \in BOOLEAN : WpRecv(c, ok)
    \/ \E c \in ClientIds : WpLen(c)
    \/ \E c \in ClientIds : WpNext(c)
    \/ \E c \in ClientIds, ok \in BOOLEAN : WpFlush(c, ok)
    \/ \E c \in ClientIds : WpReturn(c)

SpecWrite == Init /\ [][NextWrite]_vars

\* ------------------------------------ the Hub that announces joins, locks
\* The Hub of part_006, statement by statement where it touches its mutex.
\* A connection is handed to the Hub over the unbuffered register channel
\* (the handler blocks in the send until Run receives), then its read pump
\* reads cursor frames, each handed over the unbuffered broadcast channel,
\* and at the end hands the client over the unregister channel.
InitHub6 ==
    /\ clients = << >>
    /\ send    = [c \in ClientIds |-> <<>>]
    /\ closes  = [c \in ClientIds |-> 0]
    /\ evicted = {}
    /\ conn    = [c \in ClientIds |-> "none"]
    /\ cdoc    = [c \in ClientIds |-> 0]
    /\ cuser   = [c \in ClientIds |-> 0]
    /\ rp      = [c \in ClientIds |-> "none"]
    /\ wp      = [c \in ClientIds |-> "none"]
    /\ msg     = [c \in ClientIds |-> NoMessage]
    /\ txt     = [c \in ClientIds |-> <<>>]
    /\ events  = <<>>
    /\ content = [d \in Docs |-> <<>>]
    /\ applyFailed = FALSE
    /\ crashed = FALSE
    /\ aeIn    = [content |-> <<>>, edit |-> NoEdit]
    /\ aeOut   = Returned(<<>>)
    /\ aePc    = "idle"
    /\ haIn    = NoAccessCall
    /\ haOut   = NoAnswer
    /\ haPc    = "idle"
    /\ bus     = {}
    /\ wire    = [c \in ClientIds |-> <<>>]
    /\ sent    = [c \in ClientIds |-> <<>>]
    /\ wbuf    = [c \in ClientIds |-> <<>>]
    /\ wn      = [c \in ClientIds |-> 0]
    /\ casts   = 0
    /\ dqIn    = NoRequest
    /\ dqOut   = NoOutcome
    /\ dqPc    = "idle"
    /\ mutex   = Unlocked
    /\ hpc     = "select"
    /\ hreq    = NoHubRequest
    /\ gpc     = NotCounting
    /\ hb      = NoHeartbeat

\* HandleWebSocket: the client is built and offered on h.register
Connect6(c, d) ==
    /\ conn[c] = "none"
    /\ conn'  = [conn EXCEPT ![c] = "open"]
    /\ cdoc'  = [cdoc EXCEPT ![c] = d]
    /\ cuser' = [cuser EXCEPT ![c] = OwnerOf(d)]
    /\ rp'    = [rp EXCEPT ![c] = "register"]
    /\ UNCHANGED <<hubVars, wp, msg, txt, dbVars, crashed, callVars, bus, hb,
                   wrVars, lockVars>>

\* readPump: a cursor frame is read and offered on h.broadcast
Read6(c) ==
    /\ rp[c] = "read"
    /\ conn[c] = "open"
    /\ msg' = [msg EXCEPT ![c] =
                   Message("cursor", cdoc[c], cuser[c], 0, CursorPayload)]
    /\ rp'  = [rp EXCEPT ![c] = "broadcast"]
    /\ UNCHANGED <<hubVars, conn, cdoc, cuser, wp, txt, dbVars, crashed,
                   callVars, bus, hb, wrVars, lockVars>>

\* readPump: the connection ends, the client is offered on h.unregister
Close6(c) ==
    /\ rp[c] = "read"
    /\ conn[c] = "open"
    /\ conn' = [conn EXCEPT ![c] = "closed"]
    /\ rp'   = [rp EXCEPT ![c] = "unregister"]
    /\ UNCHANGED <<hubVars, cdoc, cuser, wp, msg, txt, dbVars, crashed,
                   callVars, bus, hb, wrVars, lockVars>>

\* the next statement of the Hub's goroutine:
\*   select  Run receives a request from one of its three channels
\*   lock    registerClient / unregisterClient: h.mutex.Lock()
\*   locked  ... their statements up to the call that notifies the others
\*   rlock   broadcastToDocument[Except]: h.mutex.RLock(), the snapshot,
\*           RUnlock(), the loop, and the rest of the caller with its
\*           deferred Unlock()
\* RLock blocks while the mutex is held for writing, whoever holds it.
HubRun6 ==
    LET c == hreq.client
        d == hreq.doc
        h == HubState
    IN
    IF hpc = "select"
    THEN \E k \in ClientIds :
           /\ rp[k] \in {"register", "broadcast", "unregister"}
           /\ hreq' = [kind |-> rp[k], client |-> k, doc |-> cdoc[k],
                       msg |-> msg[k]]
           /\ rp'   = [rp EXCEPT ![k] =
                          IF rp[k] = "unregister" THEN "gone" ELSE "read"]
           /\ hpc'  = IF rp[k] = "broadcast" THEN "rlock" ELSE "lock"
           /\ UNCHANGED <<hubVars, crashed, mutex>>
    ELSE IF hpc = "lock"
    THEN /\ ~mutex.writer /\ mutex.readers = 0
         /\ mutex' = [mutex EXCEPT !.writer = TRUE]
         /\ hpc'   = "locked"
         /\ UNCHANGED <<hubVars, crashed, hreq, rp>>
    ELSE IF hpc = "locked"
    THEN IF hreq.kind = "register"
         THEN /\ HubBecomes([h EXCEPT !.clients =
                                 MapPut(h.clients, d, Registered(h, d) \cup {c})])
              /\ hpc' = "rlock"
              /\ UNCHANGED <<mutex, hreq, rp>>
         ELSE IF d \in DOMAIN h.clients /\ c \in h.clients[d]
         THEN /\ HubBecomes([h EXCEPT
                     !.clients = MapPut(h.clients, d, h.clients[d] \ {c}),
                     !.closes[c] = @ + 1,
                     !.panic = (h.closes[c] > 0)])
              /\ hpc' = "rlock"
              /\ UNCHANGED <<mutex, hreq, rp>>
         ELSE /\ mutex' = Unlocked
              /\ hpc'   = "select"
              /\ hreq'  = NoHubRequest
              /\ UNCHANGED <<hubVars, crashed, rp>>
    ELSE /\ hpc = "rlock"
         /\ ~mutex.writer
         /\ HubBecomes(
              IF hreq.kind = "register"
              THEN confirmClient(
                     broadcastToDocumentExcept(
                       h, Message("user_join", d, cuser[c], 0, NoPayload), c),
                     c, d, cuser[c])
              ELSE IF hreq.kind = "unregister"
              THEN dropEmpty(
                     broadcastToDocumentExcept(
                       h, Message("user_leave", d, cuser[c], 0, NoPayload), c),
                     d)
              ELSE broadcastToDocumentExcept(h, hreq.msg, 0))
         /\ mutex' = Unlocked
         /\ hpc'   = "select"
         /\ hreq'  = NoHubRequest
         /\ UNCHANGED rp

Hub6 ==
    /\ HubRun6
    /\ UNCHANGED <<conn, cdoc, cuser, wp, msg, txt, dbVars, callVars, bus, hb,
                   wrVars, gpc>>

NextHub6 ==
    \/ \E c \in ClientIds, d \in Docs : Connect6(c, d)
    \/ \E c \in ClientIds : Read6(c)
    \/ \E c \in ClientIds : Close6(c)
    \/ Hub6

\* the Hub's goroutine is scheduled whenever it can take a step
SpecHub6 == InitHub6 /\ [][NextHub6]_vars /\ WF_vars(Hub6)

\* ----------------------------------------- the Hub's lock, statement-wise
\* The Hub of hub.go, statement by statement where it touches its mutex,
\* against the connection handlers and a caller of GetDocumentClientCount
\* in another goroutine (RedisService.handleRedisMessage, part_004 61-71).

\* Run receives a request from one of its three channels (hub.go 55-64)
RunSelect(k) ==
    /\ hpc = "select"
    /\ rp[k] \in {"register", "broadcast", "unregister"}
    /\ hreq' = [kind |-> rp[k], client |-> k, doc |-> cdoc[k], msg |-> msg[k]]
    /\ rp'   = [rp EXCEPT ![k] =
                  IF rp[k] = "unregister" THEN "gone" ELSE "read"]
    /\ hpc'  = IF rp[k] = "broadcast" THEN "rlock" ELSE "lock"
    /\ UNCHANGED <<hubVars, conn, cdoc, cuser, wp, msg, txt, dbVars, crashed,
                   callVars, bus, hb, wrVars, mutex, gpc>>

\* registerClient / unregisterClient: h.mutex.Lock() (hub.go 69, 99)
RunLock ==
    /\ hpc = "lock"
    /\ ~mutex.writer /\ mutex.readers = 0
    /\ mutex' = [mutex EXCEPT !.writer = TRUE]
    /\ hpc'   = "locked"
    /\ UNCHANGED <<hubVars, conn, cdoc, cuser, rp, wp, msg, txt, dbVars,
                   crashed, callVars, bus, hb, wrVars, hreq, gpc>>

\* ... their body and the deferred Unlock() (hub.go 70-96, 100-116)
RunLocked ==
    /\ hpc = "locked"
    /\ HubBecomes(IF hreq.kind = "register"
                  THEN registerClient(HubState, hreq.client, hreq.doc,
                                      cuser[hreq.client])
                  ELSE unregisterClient(HubState, hreq.client, hreq.doc))
    /\ mutex' = [mutex EXCEPT !.writer = FALSE]
    /\ hpc'   = "select"
    /\ hreq'  = NoHubRequest
    /\ UNCHANGED <<conn, cdoc, cuser, rp, wp, msg, txt, dbVars, callVars,
                   bus, hb, wrVars, gpc>>

\* broadcastToDocument taking the lock exclusively and keeping it for its loop
RunSnapshot_KeepsLock ==
    /\ hpc = "rlock"
    /\ ~mutex.writer /\ mutex.readers = 0
    /\ mutex' = [mutex EXCEPT !.writer = TRUE]
    /\ hpc' = "loop"
    /\ UNCHANGED <<hubVars, conn, cdoc, cuser, rp, wp, msg, txt, dbVars,
                   crashed, callVars, bus, hb, wrVars, hreq, gpc>>

\* broadcastToDocument: RLock(), clients := h.clients[id], RUnlock()
\* (hub.go 119-121)
RunSnapshot ==
    /\ hpc = "rlock"
    /\ ~mutex.writer
    /\ hpc' = "loop"
    /\ UNCHANGED <<hubVars, conn, cdoc, cuser, rp, wp, msg, txt, dbVars,
                   crashed, callVars, bus, hb, wrVars, mutex, hreq, gpc>>

\* ... the loop over the snapshot, which is the registry's own inner map
\* (hub.go 123-144)
RunLoop ==
    /\ hpc = "loop"
    /\ HubBecomes(broadcastToDocument(HubState, hreq.msg))
    /\ hpc'  = "select"
    /\ hreq' = NoHubRequest
    /\ UNCHANGED <<conn, cdoc, cuser, rp, wp, msg, txt, dbVars, callVars,
                   bus, hb, wrVars, mutex, gpc>>

\* a message for document d arrives from the bus and handleRedisMessage
\* calls GetDocumentClientCount: h.mutex.RLock() (hub.go 148)
CountRLock(d) ==
    /\ gpc.pc = "idle"
    /\ ~mutex.writer
    /\ mutex' = [mutex EXCEPT !.readers = @ + 1]
    /\ gpc'   = [pc |-> "reading", doc |-> d, count |-> gpc.count]
    /\ UNCHANGED <<hubVars, conn, cdoc, cuser, rp, wp, msg, txt, dbVars,
                   crashed, callVars, bus, hb, wrVars, hpc, hreq>>

\* ... len(clients) read, deferred RUnlock() (hub.go 149-154)
CountReturn ==
    /\ gpc.pc = "reading"
    /\ mutex' = [mutex EXCEPT !.readers = @ - 1]
    /\ gpc'   = [pc |-> "counted", doc |-> gpc.doc,
                 count |-> GetDocumentClientCount(gpc.doc)]
    /\ UNCHANGED <<hubVars, conn, cdoc, cuser, rp, wp, msg, txt, dbVars,
                   crashed, callVars, bus, hb, wrVars, hpc, hreq>>

\* the message another instance published for document d (part_004 50-59)
BusMessage(d) == Message("cursor", d, OwnerOf(d), ClientVersion, CursorPayload)

\* handleRedisMessage offering the message whatever the count
handleRedisMessage_Unchecked ==
    /\ gpc.pc = "counted"
    /\ gpc' = [gpc EXCEPT !.pc = "broadcast"]
    /\ UNCHANGED <<hubVars, conn, cdoc, cuser, rp, wp, msg, txt, dbVars,
                   crashed, callVars, bus, hb, wrVars, mutex, hpc, hreq>>

\* RedisService.handleRedisMessage (part_004 61-71) with the count in hand:
\* the message is offered on h.broadcast when the count is positive, and
\* dropped otherwise
handleRedisMessage ==
    /\ gpc.pc = "counted"
    /\ gpc' = [gpc EXCEPT !.pc = IF gpc.count > 0 THEN "broadcast"
                                 ELSE "idle"]
    /\ UNCHANGED <<hubVars, conn, cdoc, cuser, rp, wp, msg, txt, dbVars,
                   crashed, callVars, bus, hb, wrVars, mutex, hpc, hreq>>

\* Run receives the subscriber's message from h.broadcast (hub.go 61-62)
RunSelectBus ==
    /\ hpc = "select"
    /\ gpc.pc = "broadcast"
    /\ hreq' = [kind |-> "broadcast", client |-> 0, doc |-> gpc.doc,
                msg |-> BusMessage(gpc.doc)]
    /\ gpc'  = [gpc EXCEPT !.pc = "idle"]
    /\ hpc'  = "rlock"
    /\ UNCHANGED <<hubVars, conn, cdoc, cuser, rp, wp, msg, txt, dbVars,
                   crashed, callVars, bus, hb, wrVars, mutex>>

NextLock ==
    \/ \E c \in ClientIds, d \in Docs : Connect6(c, d)
    \/ \E c \in ClientIds : Read6(c)
    \/ \E c \in ClientIds : Close6(c)
    \/ \E k \in ClientIds : RunSelect(k)
    \/ RunLock
    \/ RunLocked
    \/ RunSnapshot
    \/ RunLoop
    \/ \E d \in Docs : CountRLock(d)
    \/ CountReturn
    \/ handleRedisMessage
    \/ RunSelectBus

SpecLock == InitHub6 /\ [][NextLock]_vars

\* ------------------------------------------------- the pumps to their end
\* The two pumps of every connection under cursor traffic, with the
\* scheduling the runtime gives them: a goroutine that can take a step takes
\* it.  The write pump's writes end within the write deadline, the Hub
\* receives what is offered on its channels, and ReadMessage on a connection
\* that has been closed returns an error.  A peer that keeps its connection
\* open may stay for ever: reading a frame and a read error on an open
\* connection are not forced.
ReadFails(c) == conn[c] = "closed" /\ ReadPumpExit(c)

NextPumps ==
    \/ \E c \in ClientIds, d \in Docs, up \in BOOLEAN :
           HandleWebSocket(c, d, OwnerOf(d), up)
    \/ \E c \in ClientIds, m \in CursorFrames : ReadMessage(c, m, TRUE)
    \/ \E c \in ClientIds : BroadcastMessage(c)
    \/ \E c \in ClientIds : ReadPumpExit(c)
    \/ \E c \in ClientIds, ok \in BOOLEAN : WritePumpWrite(c, ok)
    \/ \E c \in ClientIds : WritePumpExit(c)

SpecPumps ==
    /\ Init
    /\ [][NextPumps]_vars
    /\ \A c \in ClientIds :
           /\ WF_vars(BroadcastMessage(c))
           /\ WF_vars(ReadFails(c))
           /\ WF_vars(\E ok \in BOOLEAN : WritePumpWrite(c, ok))
           /\ WF_vars(WritePumpExit(c))

\* ------------------------------------------------------------ heartbeat
\* One connection's read deadline and pings on a clock of seconds.  The
\* peer either never answers and sends nothing ("silent"), or answers every
\* ping before the read deadline that is in force ("acks").  The clock does
\* not pass a ping that is due or a deadline that has expired before the
\* pump concerned has acted on it.
InitBeat ==
    /\ clients = << >>
    /\ send    = [c \in ClientIds |-> <<>>]
    /\ closes  = [c \in ClientIds |-> 0]
    /\ evicted = {}
    /\ conn    = [c \in ClientIds |-> "none"]
    /\ cdoc    = [c \in ClientIds |-> 0]
    /\ cuser   = [c \in ClientIds |-> 0]
    /\ rp      = [c \in ClientIds |-> "none"]
    /\ wp      = [c \in ClientIds |-> "none"]
    /\ msg     = [c \in ClientIds |-> NoMessage]
    /\ txt     = [c \in ClientIds |-> <<>>]
    /\ events  = <<>>
    /\ content = [d \in Docs |-> <<>>]
    /\ applyFailed = FALSE
    /\ crashed = FALSE
    /\ aeIn    = [content |-> <<>>, edit |-> NoEdit]
    /\ aeOut   = Returned(<<>>)
    /\ aePc    = "idle"
    /\ haIn    = NoAccessCall
    /\ haOut   = NoAnswer
    /\ haPc    = "idle"
    /\ bus     = {}
    /\ wire    = [c \in ClientIds |-> <<>>]
    /\ sent    = [c \in ClientIds |-> <<>>]
    /\ wbuf    = [c \in ClientIds |-> <<>>]
    /\ wn      = [c \in ClientIds |-> 0]
    /\ casts   = 0
    /\ dqIn    = NoRequest
    /\ dqOut   = NoOutcome
    /\ dqPc    = "idle"
    /\ mutex   = Unlocked
    /\ hpc     = "select"
    /\ hreq    = NoHubRequest
    /\ gpc     = NotCounting
    /\ \E m \in {"silent", "acks"} :
           hb = [mode |-> m, state |-> "connected", now |-> 0,
                 deadline |-> pongWait, nextPing |-> pingPeriod,
                 pong |-> FALSE]

BeatIdle ==
    UNCHANGED <<hubVars, conn, cdoc, cuser, rp, wp, msg, txt, dbVars, crashed,
                callVars, bus, wrVars, lockVars>>

\* a second passes
Tick ==
    /\ hb.state = "connected"
    /\ hb.now < MaxTime
    /\ hb.now < hb.nextPing
    /\ hb.now < hb.deadline
    /\ (hb.mode = "acks" /\ hb.pong) => hb.now + 1 < hb.deadline
    /\ hb' = [hb EXCEPT !.now = @ + 1]
    /\ BeatIdle

\* writePump (157-162): the ticker fires, a ping is written; when the write
\* fails the pump returns and closes the connection
WritePing(ok) ==
    /\ hb.state = "connected"
    /\ hb.now = hb.nextPing
    /\ hb' = IF ok
             THEN [hb EXCEPT !.nextPing = @ + pingPeriod,
                             !.pong = (hb.mode = "acks")]
             ELSE [hb EXCEPT !.state = "write_failed"]
    /\ BeatIdle

\* the pong handler without its SetReadDeadline
PongHandler_NoReset ==
    /\ hb.state = "connected"
    /\ hb.pong
    /\ hb.now < hb.deadline
    /\ hb' = [hb EXCEPT !.pong = FALSE]
    /\ BeatIdle

\* readPump (94-97): the pong handler moves the read deadline
PongHandler ==
    /\ hb.state = "connected"
    /\ hb.pong
    /\ hb.now < hb.deadline
    /\ hb' = [hb EXCEPT !.pong = FALSE, !.deadline = hb.now + pongWait]
    /\ BeatIdle

\* readPump (100-106, 87-90): ReadMessage fails on the expired deadline, the
\* pump returns, the client is unregistered and the connection closed
ReadDeadline ==
    /\ hb.state = "connected"
    /\ hb.now >= hb.deadline
    /\ hb' = [hb EXCEPT !.state = "timed_out"]
    /\ BeatIdle

NextBeat ==
    \/ Tick
    \/ \E ok \in BOOLEAN : WritePing(ok)
    \/ PongHandler
    \/ ReadDeadline

\* time passes and the pumps run
SpecBeat ==
    /\ InitBeat
    /\ [][NextBeat]_vars
    /\ WF_vars(Tick)
    /\ WF_vars(\E ok \in BOOLEAN : WritePing(ok))
    /\ WF_vars(ReadDeadline)

\* ---------------------------------------------- AddCollaborator on its own
\* Two calls of AddCollaborator for the same document and user, one after
\* the other, each with its own permission and its own luck with the
\* database, on a table that may already hold a row.
Permissions == {"view", "edit", "admin"}

CollabCalls ==
    [doc : 1..(MaxDocs + 1), user : Users,
     rows : {<<>>, <<CollabRow(1, 1, "view")>>, <<CollabRow(2, 1, "edit")>>,
             <<CollabRow(1, 2, "edit"), CollabRow(1, 1, "edit")>>},
     calls : [1..2 -> [permission : Permissions, ok : BOOLEAN]]]

InitCollab ==
    /\ clients = << >>
    /\ send    = [c \in ClientIds |-> <<>>]
    /\ closes  = [c \in ClientIds |-> 0]
    /\ evicted = {}
    /\ conn    = [c \in ClientIds |-> "none"]
    /\ cdoc    = [c \in ClientIds |-> 0]
    /\ cuser   = [c \in ClientIds |-> 0]
    /\ rp      = [c \in ClientIds |-> "none"]
    /\ wp      = [c \in ClientIds |-> "none"]
    /\ msg     = [c \in ClientIds |-> NoMessage]
    /\ txt     = [c \in ClientIds |-> <<>>]
    /\ events  = <<>>
    /\ content = [d \in Docs |-> <<>>]
    /\ applyFailed = FALSE
    /\ crashed = FALSE
    /\ aeIn    = [content |-> <<>>, edit |-> NoEdit]
    /\ aeOut   = Returned(<<>>)
    /\ aePc    = "idle"
    /\ haIn    = NoAccessCall
    /\ haOut   = NoAnswer
    /\ haPc    = "idle"
    /\ bus     = {}
    /\ wire    = [c \in ClientIds |-> <<>>]
    /\ sent    = [c \in ClientIds |-> <<>>]
    /\ wbuf    = [c \in ClientIds |-> <<>>]
    /\ wn      = [c \in ClientIds |-> 0]
    /\ casts   = 0
    /\ dqIn \in CollabCalls
    /\ dqOut   = [err |-> FALSE, rows |-> dqIn.rows, n |-> 0]
    /\ dqPc    = "call"
    /\ mutex   = Unlocked
    /\ hpc     = "select"
    /\ hreq    = NoHubRequest
    /\ gpc     = NotCounting
    /\ hb      = NoHeartbeat

\* the next of the two calls, on the table the previous one left
AddCollaboratorCall ==
    /\ dqPc = "call"
    /\ LET call == dqIn.calls[dqOut.n + 1]
           r    == AddCollaborator(dqOut.rows, dqIn.doc, dqIn.user,
                                   call.permission, call.ok)
       IN dqOut' = [err |-> r.err, rows |-> r.rows, n |-> dqOut.n + 1]
    /\ dqPc' = IF dqOut.n + 1 = 2 THEN "done" ELSE "call"
    /\ UNCHANGED <<hubVars, conn, cdoc, cuser, rp, wp, msg, txt, dbVars,
                   crashed, aeVars, haVars, dqIn, bus, hb, wrVars, lockVars>>

NextCollab == AddCollaboratorCall

SpecCollab == InitCollab /\ [][NextCollab]_vars

\* ------------------------------------------------------------ properties
TypeOK ==
    /\ \A c \in ClientIds : Len(send[c]) <= SendCap
    /\ \A d \in Docs : Len(content[d]) <= MaxEdits

\* rows of the events table that belong to document d
RowsOf(d) == {i \in 1..Len(events) : events[i].document_id = d}

\* C1: any two edits persisted for one document carry different versions, and
\* every persisted edit's version is the highest version persisted for its
\* document before it, plus one.
C1_VersionsUniqueAndNext ==
    \A d \in Docs : \A i \in RowsOf(d) :
        /\ events[i].version = MaxVersionUpTo(events, d, i - 1) + 1
        /\ \A j \in RowsOf(d) : j # i => events[j].version # events[i].version

\* no read pump is between persisting an edit and writing the content
Quiescent ==
    \A c \in ClientIds : rp[c] \notin {"persist", "apply_read", "apply_write"}

\* the orders in which the rows of d can be replayed: every row once, versions
\* never decreasing
ReplayOrders(d) ==
    LET n == Cardinality(RowsOf(d)) IN
    {o \in [1..n -> RowsOf(d)] :
        /\ \A i, j \in 1..n : i # j => o[i] # o[j]
        /\ \A i, j \in 1..n : i < j => events[o[i]].version <= events[o[j]].version}

RECURSIVE Replay(_, _)
Replay(o, k) ==
    IF k = 0 THEN <<>>
    ELSE applyEdit(Replay(o, k - 1), events[o[k]].edit).out

\* C2: once every persisted edit of a document has been processed, the
\* stored content is the result of applying those edits one after another in
\* the order of their versions.
C2_NoLostUpdate ==
    (Quiescent /\ ~applyFailed /\ ~crashed) =>
        \A d \in Docs : \E o \in ReplayOrders(d) :
            content[d] = Replay(o, Cardinality(RowsOf(d)))

Clamp(p, lo, hi) == IF p < lo THEN lo ELSE IF p > hi THEN hi ELSE p

\* C10: applyEdit with operation insert returns
\* prefix(0,p) ++ text ++ suffix(p,end), p being the position clamped into
\* [0, length of content], for every content, text and position.
C10_InsertClamps ==
    (aePc = "done" /\ aeIn.edit.operation = "insert") =>
        LET c == aeIn.content
            p == Clamp(aeIn.edit.position, 0, Len(c))
        IN aeOut = Returned(SubSeq(c, 1, p) \o aeIn.edit.content
                              \o SubSeq(c, p + 1, Len(c)))

\* ---------------------------------------------------- Hub: observations
\* the Hub handled the registration of a / a broadcast handed over by c /
\* the unregister request of c in this step
RegisterStep(a)   == conn[a] = "none" /\ conn'[a] = "open"
BroadcastStep(c)  == rp[c] = "broadcast" /\ rp'[c] = "read"
UnregisterStep(c) == rp[c] = "read" /\ rp'[c] = "done"

InRegistry(c) == \E d \in DOMAIN clients : c \in clients[d]
QueueFull(c)  == Len(send[c]) >= SendCap

\* how many messages of type t the queue q holds
CountType(q, t) == Cardinality({i \in 1..Len(q) : q[i].type = t})

JoinMsg(d, u) == Message("user_join", d, u, 0, [kind |-> "join", edit |-> NoEdit])

\* registrations handled for document d, and unregister requests that found
\* their client registered
Registers(d) ==
    Cardinality({c \in ClientIds : cdoc[c] = d /\ conn[c] \in {"open", "closed"}})
MatchingUnregisters(d) ==
    Cardinality({c \in ClientIds : cdoc[c] = d /\ rp[c] = "done" /\ c \notin evicted})

\* C3: while the Hub has handled only register and unregister requests that
\* concern a document (no client of it was dropped on a full queue), the
\* count it reports is registers minus matching unregisters; it is never
\* negative and 0 for a document nobody registered for; registering a
\* registered client again does not raise it and unregistering a client that
\* is not registered does not lower it.
C3_ClientCount ==
    \A d \in Docs :
        /\ GetDocumentClientCount(d) >= 0
        /\ Registers(d) = 0 => GetDocumentClientCount(d) = 0
        /\ (\A c \in evicted : cdoc[c] # d) =>
               GetDocumentClientCount(d) = Registers(d) - MatchingUnregisters(d)
        /\ \A c \in ClientIds :
               /\ (cdoc[c] = d /\ InRegistry(c)) =>
                      Cardinality(Registered(registerClient(HubState, c, d, cuser[c]), d))
                          <= GetDocumentClientCount(d)
               /\ (cdoc[c] = d /\ ~InRegistry(c)) =>
                      Cardinality(Registered(unregisterClient(HubState, c, d), d))
                          = GetDocumentClientCount(d)

C3_Witness ==
    \E d \in Docs :
        /\ Registers(d) = 2
        /\ MatchingUnregisters(d) = 1
        /\ GetDocumentClientCount(d) = 1
        /\ \A c \in evicted : cdoc[c] # d

\* C4: when the Hub registers client a for a document on which b is already
\* registered, b's queue gains exactly one user_join naming a's user, and
\* a's queue holds exactly one connected message and no user_join.
C4_JoinNotice ==
    [][\A a \in ClientIds : RegisterStep(a) =>
          /\ \A b \in Registered(HubState, cdoc'[a]) \ {a} :
                 ~QueueFull(b) =>
                     send'[b] = Append(send[b], JoinMsg(cdoc'[a], cuser'[a]))
          /\ CountType(send'[a], "connected") = 1
          /\ CountType(send'[a], "user_join") = 0]_vars

\* C5 as claimed: a broadcast appends the message once to the queue of every
\* client registered for the message's document and leaves every other queue
\* as it was.
C5_BroadcastToAll ==
    [][\A c \in ClientIds : BroadcastStep(c) =>
          \A x \in ClientIds :
              send'[x] = IF x \in Registered(HubState, msg[c].document_id)
                         THEN Append(send[x], msg[c])
                         ELSE send[x]]_vars

\* C5, amended: a broadcast appends the message once to the queue of every
\* client registered for the message's document whose queue is not full (the
\* sender included) and leaves every other queue as it was: the queues of
\* other documents' clients, and the full ones.
C5_BroadcastToThoseWithRoom ==
    [][\A c \in ClientIds : BroadcastStep(c) =>
          \A x \in ClientIds :
              send'[x] = IF /\ x \in Registered(HubState, msg[c].document_id)
                            /\ ~QueueFull(x)
                         THEN Append(send[x], msg[c])
                         ELSE send[x]]_vars

\* two registered clients of one document hold the same cursor message as
\* the last message of their queues
C5_Witness ==
    \E x, y \in ClientIds :
        /\ x # y /\ InRegistry(x) /\ InRegistry(y) /\ cdoc[x] = cdoc[y]
        /\ Len(send[x]) > 0 /\ Len(send[y]) > 0
        /\ send[x][Len(send[x])].type = "cursor"
        /\ send[y][Len(send[y])] = send[x][Len(send[x])]

\* C6: a client whose queue is full is removed from the registry by the next
\* broadcast to its document and by the next registration on its document,
\* and in that step every other client of the document with room in its
\* queue receives the message.
C6_SaturatedClientRemoved ==
    [][\A c \in ClientIds :
          /\ BroadcastStep(c) =>
                \A x \in Registered(HubState, msg[c].document_id) :
                    IF QueueFull(x) THEN ~InRegistry(x)'
                    ELSE send'[x] = Append(send[x], msg[c])
          /\ RegisterStep(c) =>
                \A x \in Registered(HubState, cdoc'[c]) \ {c} :
                    QueueFull(x) => ~InRegistry(x)']_vars

\* C7: no document maps to an empty client set, and no client is in the
\* sets of two documents.
C7_RegistryShape ==
    /\ \A d \in DOMAIN clients : clients[d] # {}
    /\ \A d1, d2 \in DOMAIN clients : d1 # d2 => clients[d1] \cap clients[d2] = {}

\* C8: a client's queue is never closed twice; once its read pump has exited
\* and the Hub has handled the unregister it has been closed exactly once;
\* an unregister request for a client that is not registered changes neither
\* the registry nor any queue.
C8_ClosedExactlyOnce ==
    \A c \in ClientIds :
        /\ closes[c] <= 1
        /\ rp[c] = "done" => closes[c] = 1
        /\ c \in evicted => closes[c] = 1 /\ ~InRegistry(c)
        /\ (conn[c] \in {"open", "closed"} /\ ~InRegistry(c)) =>
               unregisterClient(HubState, c, cdoc[c]) = HubState

\* a client that was dropped on a full queue and whose read pump then exited
C8_Witness ==
    \E c \in ClientIds : c \in evicted /\ rp[c] = "done" /\ closes[c] = 1

\* C9: when the version lookup or the event insert fails for an edit, the
\* failing step and the return to the read loop leave the content, the log,
\* every queue, the registry and the connection as they were; an edit is in
\* the log whenever its pump goes on to apply or to broadcast it.
AbortedPcs == {"version_failed", "persist_failed"}

Persisted(m) == \E i \in 1..Len(events) : events[i] = EventRow(m)

C9_Untouched(c) ==
    /\ content' = content
    /\ events'  = events
    /\ send'    = send
    /\ clients' = clients
    /\ closes'  = closes
    /\ conn'[c] = conn[c]

C9_AbortedEdit ==
    [][\A c \in ClientIds :
          /\ (rp'[c] \in AbortedPcs /\ rp[c] # rp'[c]) => C9_Untouched(c)
          /\ (rp[c] \in AbortedPcs /\ rp'[c] # rp[c]) =>
                 rp'[c] = "read" /\ C9_Untouched(c)
          /\ (rp[c] = "persist" /\ rp'[c] # rp[c]) =>
                 \/ rp'[c] = "persist_failed"
                 \/ rp'[c] = "apply_read" /\ Persisted(msg[c])'
          /\ (BroadcastStep(c) /\ msg[c].type = "edit") => Persisted(msg[c])
      ]_vars

\* the insert of an edit has just failed for a registered client with an
\* open connection, on a document whose content an earlier edit has written
C9_Witness ==
    \E c \in ClientIds :
        /\ rp[c] = "persist_failed"
        /\ InRegistry(c) /\ conn[c] = "open"
        /\ \E d \in Docs : content[d] # <<>>

\* C11: applyEdit with operation delete returns the content unchanged when
\* position >= length of content, and otherwise prefix(0,position) ++
\* suffix(end,length of content) with end = min(position+length, length of
\* content), also when the length asked for exceeds the content; it always
\* returns a result.
C11_DeleteClamps ==
    (aePc = "done" /\ aeIn.edit.operation = "delete") =>
        LET c   == aeIn.content
            n   == Len(c)
            p   == aeIn.edit.position
            e0  == p + aeIn.edit.length
            end == IF e0 > n THEN n ELSE e0
        IN /\ ~aeOut.panic
           /\ aeOut.out = IF p >= n THEN c
                          ELSE SubSeq(c, 1, p) \o SubSeq(c, end + 1, n)

\* C12: no step of one connection's read pump (a frame of any kind handled,
\* an edit with any position and length applied, a read error) terminates
\* the server process or removes from the registry another client that has
\* room in its queue.
C12_FailuresIsolated ==
    [][/\ ~crashed'
       /\ \A c \in ClientIds : rp'[c] # rp[c] =>
              \A x \in ClientIds \ {c} :
                  (InRegistry(x) /\ ~QueueFull(x)) => InRegistry(x)']_vars

\* C13: the access check is true exactly when the user owns the document or
\* has a collaborator row for it at any permission level; this holds of the
\* service's check and of the check that admits WebSocket connections.
IsOwnerOrCollaborator ==
    \/ haIn.doc \in Docs /\ OwnerOf(haIn.doc) = haIn.user
    \/ /\ <<haIn.doc, haIn.user>> \in DOMAIN haIn.collab
       /\ haIn.collab[<<haIn.doc, haIn.user>>] \in {"view", "edit"}

C13_AccessIffOwnerOrCollaborator ==
    (haPc = "done" /\ haIn.dbOk) =>
        /\ haOut.svc = IsOwnerOrCollaborator
        /\ haOut.ws  = IsOwnerOrCollaborator

\* user u's only access to document d is a collaborator row with permission
\* view
ViewOnly(t, u, d) ==
    /\ d \in Docs /\ OwnerOf(d) # u
    /\ GetCollaboratorPermission(t, d, u) = "view"

\* the edit pipeline has accepted the message read pump c holds: it is
\* versioned and about to be persisted, applied or broadcast
EditAccepted(c) ==
    /\ rp[c] \in {"persist", "apply_read", "apply_write", "broadcast"}
    /\ msg[c].type = "edit"

\* C14: no edit message on a WebSocket connection is accepted (versioned,
\* persisted, applied or broadcast) for a document to which the connection's
\* user has only view access.
C14_NoEditFromViewer ==
    \A c \in ClientIds :
        EditAccepted(c) => ~ViewOnly(DocCollaborators, cuser[c], msg[c].document_id)

\* the HTTP half of C14: CreateDocumentEvent answers a view-only collaborator
\* with 403 alone and inserts nothing
C14_HttpRejectsViewer ==
    (haPc = "done" /\ haIn.dbOk /\ ViewOnly(haIn.collab, haIn.user, haIn.doc)) =>
        haOut.http = [responses |-> <<403>>, inserted |-> FALSE]

\* C15: a connection request that fails before the upgrade (document id not
\* a number, credential missing or invalid, no access to the document) gets
\* exactly one error response and does not go on to the upgrade and the
\* registration; a request whose credential fails authentication never does.
C15_OneErrorNoClient ==
    haPc = "done" =>
        /\ (~haIn.idOk \/ haIn.user = 0 \/ ~haOut.ws) =>
               /\ ~haOut.pre.admitted
               /\ Len(haOut.pre.responses) = 1
        /\ haOut.pre.admitted => haOut.pre.responses = <<>>

\* C16: handling a cursor message changes neither the event log (and with it
\* the highest version of every document) nor any content; the message goes
\* to the Hub with the payload and version field the client sent, and that
\* is what the queues receive.
C16_CursorOnlyRelayed ==
    [][\A c \in ClientIds :
          /\ (rp[c] = "read" /\ rp'[c] = "broadcast") =>
                 /\ msg'[c] \in CursorFrames
                 /\ events' = events /\ content' = content
          /\ (BroadcastStep(c) /\ msg[c].type = "cursor") =>
                 /\ msg[c] \in CursorFrames
                 /\ events' = events /\ content' = content
                 /\ \A x \in ClientIds :
                        send'[x] # send[x] => send'[x] = Append(send[x], msg[c])
      ]_vars

\* a cursor message was delivered after an edit had been persisted, and the
\* log still holds that edit alone
C16_Witness ==
    /\ Len(events) = 1
    /\ \E x \in ClientIds : \E i \in 1..Len(send[x]) :
           /\ send[x][i] \in CursorFrames
           /\ i > 1 /\ send[x][i - 1].type = "edit"

\* C17: when the edit pipeline hands an accepted edit to the Hub, the edit is
\* published on the channel of its document, from where the other instances
\* with clients of that document take it.
C17_EditPublished ==
    [][\A c \in ClientIds :
          (BroadcastStep(c) /\ msg[c].type = "edit") =>
              bus' = PublishMessage(bus, msg[c])]_vars

LeaveMsg(d, u) == Message("user_leave", d, u, 0, [kind |-> "leave", edit |-> NoEdit])

\* q holds the message m
Holds(q, m) == \E i \in 1..Len(q) : q[i] = m

\* C18: in the step in which the Hub evicts a client on a full queue, the
\* client's queue is closed, the client leaves the registry, and every
\* client remaining on its document receives a user_leave naming its user.
C18_EvictionNotifiesPeers ==
    [][\A x \in evicted' \ evicted :
          /\ closes'[x] = closes[x] + 1
          /\ ~InRegistry(x)'
          /\ \A y \in ClientIds :
                 (y # x /\ cdoc'[y] = cdoc'[x] /\ InRegistry(y)') =>
                     Holds(send'[y], LeaveMsg(cdoc'[x], cuser'[x]))]_vars

\* C19: when the Hub unregisters a registered client, every client that
\* remains on its document (and has room in its queue) receives exactly one
\* user_leave naming the departed user and the departed client's queue
\* receives nothing; unregistering a client that is not registered changes
\* no queue.
C19_LeaveNotice ==
    [][\A c \in ClientIds : UnregisterStep(c) =>
          IF InRegistry(c)
          THEN /\ send'[c] = send[c]
               /\ \A y \in Registered(HubState, cdoc[c]) \ {c} :
                      ~QueueFull(y) =>
                          send'[y] = Append(send[y], LeaveMsg(cdoc[c], cuser[c]))
          ELSE send' = send]_vars

KnownOperations == {"insert", "delete"}

\* C20: a frame that cannot be decoded, has an unknown type, or is an edit
\* with an unknown operation is dropped with no effect: every event row and
\* every message a queue receives is a cursor message, a notice of the Hub
\* or an edit of a known operation.
C20_UndecodableDropped ==
    /\ \A c \in ClientIds : \A i \in 1..Len(send[c]) :
           send[c][i].type \in {"connected", "cursor", "edit"}
    /\ \A i \in 1..Len(events) : events[i].edit.operation \in KnownOperations
    /\ \A c \in ClientIds : \A i \in 1..Len(send[c]) :
           send[c][i].type = "edit" =>
               send[c][i].payload.edit.operation \in KnownOperations

\* C21: applyEdit with an operation that is neither insert nor delete returns
\* the content unchanged, for every content, position and length, and
\* reports no error (it returns, it does not panic).
C21_UnknownOperationNoOp ==
    (aePc = "done" /\ aeIn.edit.operation \notin {"insert", "delete"}) =>
        aeOut = Returned(aeIn.content)

\* an unknown operation with a negative position and a text was applied to a
\* content that is not empty
C21_Witness ==
    /\ aePc = "done"
    /\ aeIn.edit.operation = "upper"
    /\ aeIn.edit.position < 0 /\ aeIn.edit.length > Len(aeIn.content)
    /\ aeIn.content # <<>> /\ aeIn.edit.content # <<>>
    /\ aeOut.out = aeIn.content

IsPrefix(p, q) == Len(p) <= Len(q) /\ p = SubSeq(q, 1, Len(p))

\* C22: what has been written to a client's connection, followed by the frame
\* its write pump is assembling and by its queue, is what the Hub enqueued
\* for it, in that order: nothing is written twice, skipped or reordered,
\* also in a coalesced frame.  Once the pump has returned, what was written
\* is the beginning of what was enqueued.
C22_WrittenInOrder ==
    \A c \in ClientIds :
        IF wp[c] = "done"
        THEN IsPrefix(wire[c], sent[c])
        ELSE wire[c] \o wbuf[c] \o send[c] = sent[c]

\* a pump has coalesced two messages into the frame at hand while the Hub
\* enqueued a third one behind them
C22_Witness ==
    \E c \in ClientIds :
        /\ wp[c] = "loop" /\ wn[c] = 0
        /\ Len(wbuf[c]) = 2 /\ send[c] # <<>>
        /\ wire[c] # <<>>

\* ------------------------------------------------- documents: ownership
IsOwner(u, d) == d \in Docs /\ OwnerOf(d) = u

Rejected(o) == o.status \in {401, 403, 404} /\ o.db = dqIn.db

\* C23: only the owner of a document can delete it or change its title: the
\* request of any other user (a collaborator with view or edit permission, or
\* a user with no relation to the document) is rejected and leaves the
\* document, its events and its collaborators as they were.
C23_OnlyOwnerDeletesOrRetitles ==
    (dqPc = "done" /\ dqIn.user # 0 /\ dqIn.failAt = "none"
                   /\ ~IsOwner(dqIn.user, dqIn.doc))
        => Rejected(dqOut.delete) /\ Rejected(dqOut.update)

\* C24: DeleteDocument is one atomic step: when one of its statements fails
\* or no document row is deleted it returns an error and the tables are as
\* they were; when it returns no error the document, its events and its
\* collaborators are all gone.
C24_DeleteIsAtomic ==
    dqPc = "done" =>
        LET d == dqIn.doc
            before == dqIn.db
            after == dqOut.svc.db
        IN /\ dqOut.svc.err <=>
                  (dqIn.failAt \in Failures \ {"none", "access"}
                       \/ d \notin before.docs)
           /\ dqOut.svc.err => after = before
           /\ ~dqOut.svc.err =>
                  /\ after.docs = before.docs \ {d}
                  /\ after.events = before.events \ {d}
                  /\ \A p \in DOMAIN after.collab :
                         after.collab[p] =
                             IF p[1] = d THEN "" ELSE before.collab[p]
                  /\ after.title = before.title

\* a deletion that failed in its last statement although the document had
\* events and a collaborator; and one that went through
C24_Witness ==
    /\ dqPc = "done"
    /\ dqIn.failAt = "doc"
    /\ dqIn.doc \in dqIn.db.events
    /\ \E u \in Users : dqIn.db.collab[<<dqIn.doc, u>>] # ""
    /\ dqOut.svc.err

C24_WitnessDeleted ==
    /\ dqPc = "done"
    /\ dqIn.doc \in dqIn.db.events
    /\ ~dqOut.svc.err
    /\ dqIn.doc \notin dqOut.svc.db.docs

\* ------------------------------------------------------ Hub: progress
\* C25: every request handed to the Hub completes and the Hub's loop comes
\* back to accept the next one: the Hub is never left waiting forever for
\* its own registry lock.
C25_HubReturnsToSelect == (hpc # "select") ~> (hpc = "select")

\* the Hub holds the registry lock for writing and waits to take it for
\* reading
C25_Blocked == hpc = "rlock" /\ mutex.writer

\* ------------------------------------------- envelope: document and user
\* the read pump of c inserted an event row / rewrote a document's content
PersistStep(c) ==
    rp[c] = "persist" /\ rp'[c] # "persist" /\ Len(events') = Len(events) + 1

ContentStep(c) == rp[c] = "apply_write" /\ content' # content

\* C26: a message read from a connection is processed for the document and
\* the user the connection was authorized and registered for: the event it
\* persists carries that document and that user, the content it rewrites is
\* that document's, and it is handed to the Hub for that document.
C26_EnvelopeCannotRedirect ==
    [][\A c \in ClientIds :
          /\ PersistStep(c) =>
                 /\ events'[Len(events')].document_id = cdoc[c]
                 /\ events'[Len(events')].user_id = cuser[c]
          /\ ContentStep(c) =>
                 \A d \in Docs \ {cdoc[c]} : content'[d] = content[d]
          /\ BroadcastStep(c) => msg[c].document_id = cdoc[c]]_vars

\* ------------------------------------------------------ Hub: lock discipline
\* C27: every write to the registry happens while the Hub's lock is held
\* exclusively, so no GetDocumentClientCount in another goroutine is reading
\* a document's client set while it is modified.
C27_RegistryWrittenUnderLock ==
    [][clients' # clients => (mutex.writer /\ gpc.pc # "reading")]_vars

\* ------------------------------------------------ log against the content
\* no read pump is inside handleEditMessage after the insert of its event
Finished ==
    \A c \in ClientIds :
        rp[c] \notin {"persist", "apply_read", "apply_write", "broadcast"}

\* C28: every edit that is persisted in the log is also applied to the
\* stored content: once its processing has finished, a document whose log
\* holds a single edit has the content that edit produces from the empty
\* document.
C28_PersistedIsApplied ==
    (Finished /\ ~crashed) =>
        \A d \in Docs : \A i \in RowsOf(d) :
            RowsOf(d) = {i} =>
                content[d] = applyEdit(<<>>, events[i].edit).out

\* ---------------------------------------------------- order of delivery
\* C29: each client receives the edit messages of one document in strictly
\* increasing version order: of two edit messages for the same document in a
\* client's queue, the one queued later has the higher version.
C29_EditsInVersionOrder ==
    \A c \in ClientIds : \A i, j \in 1..Len(send[c]) :
        (/\ i < j
         /\ send[c][i].type = "edit" /\ send[c][j].type = "edit"
         /\ send[c][i].document_id = send[c][j].document_id)
            => send[c][i].version < send[c][j].version

\* ------------------------------------------------- removed clients' frames
\* C30: once a client has been removed from the registry, no edit or cursor
\* message read afterwards from its connection is processed: its read pump
\* does not take a version for it and does not go on to persist, apply or
\* broadcast it.
C30_RemovedClientSilenced ==
    [][\A c \in ClientIds :
          (rp[c] = "read" /\ ~InRegistry(c))
              => rp'[c] \notin {"persist", "apply_read", "apply_write",
                                "broadcast"}]_vars

\* ------------------------------------------------- registry against queues
\* C31: a client is in the registry only if its queue is open, no queue is
\* closed twice, and no request the Hub can be handed in this state (a
\* broadcast for any document, the unregistration of any client) makes it
\* send on, or close, a queue that is already closed.
C31_RegisteredQueuesOpen ==
    LET h == HubState IN
    /\ \A c \in ClientIds : InRegistry(c) => closes[c] = 0
    /\ \A c \in ClientIds : closes[c] <= 1
    /\ \A d \in Docs :
           ~broadcastToDocument(h, Message("cursor", d, OwnerOf(d), 0,
                                           CursorPayload)).panic
    /\ \A c \in ClientIds : cdoc[c] \in Docs =>
           ~unregisterClient(h, c, cdoc[c]).panic

\* a client was evicted on a full queue and afterwards unregistered by its
\* read pump, while another client is still registered
C31_Witness ==
    \E c \in ClientIds :
        /\ c \in evicted /\ closes[c] = 1 /\ rp[c] = "done"
        /\ \E x \in ClientIds \ {c} : InRegistry(x)

\* ------------------------------------------------- sends against the lock
\* the Hub put a message into some client's queue in this step
Enqueued == \E c \in ClientIds : Len(send'[c]) > Len(send[c])

\* C32 (as stated): the Hub never enqueues a message while it holds the
\* registry lock: every send happens after the lock has been released.
C32_SendsAfterUnlock == [][Enqueued => ~mutex.writer]_vars

\* C32 (amended): a broadcast enqueues only after the Hub has released the
\* lock; the confirmation of a registration is enqueued while the Hub holds
\* the lock exclusively.
C32_OnlyConfirmationUnderLock ==
    [][Enqueued => /\ mutex.writer <=> hreq.kind = "register"
                   /\ ~mutex.writer <=> hreq.kind = "broadcast"]_vars

\* a client's queue holds its confirmation and a broadcast message
C32_Witness ==
    \E c \in ClientIds :
        /\ Len(send[c]) = 2
        /\ send[c][1].type = "connected"
        /\ send[c][2].type = "cursor"

\* --------------------------------------------------- pumps: termination
\* both pumps of c have returned, its queue and its connection are closed
PumpsGone(c) ==
    /\ rp[c] = "done" /\ wp[c] = "done"
    /\ conn[c] = "closed" /\ closes[c] > 0

\* C33: no pump of a removed client runs for ever: once a client's queue is
\* closed, or its read pump has returned, both its pumps return, and its
\* queue and its connection end up closed.
C33_PumpsTerminate ==
    \A c \in ClientIds :
        (closes[c] > 0 \/ rp[c] = "done") ~> PumpsGone(c)

\* an evicted client whose pumps have both returned
C33_Witness ==
    \E c \in ClientIds : c \in evicted /\ PumpsGone(c)

\* ------------------------------------------------------------ heartbeat
\* C34: a connected client that answers no ping and sends nothing is
\* eventually disconnected, and a client that answers every ping before the
\* read deadline is never disconnected by the read deadline.
C34_IdleDeadline ==
    /\ (hb.mode = "silent") ~> (hb.state \in {"timed_out", "write_failed"})
    /\ [](hb.mode = "acks" => hb.state # "timed_out")

\* an answering client whose deadline has been moved by its second pong,
\* still connected after the first deadline would have expired
C34_Witness ==
    /\ hb.mode = "acks"
    /\ hb.state = "connected"
    /\ hb.now > 2 * pingPeriod
    /\ hb.deadline > hb.now

\* a silent client timed out at its first deadline
C34_WitnessSilent ==
    hb.mode = "silent" /\ hb.state = "timed_out" /\ hb.now = pongWait

\* ------------------------------------------------------- bus to the Hub
\* C35: a message from the bus is handed to the Hub only if the count of the
\* document's local clients was positive when it was checked; with a count
\* of zero it is dropped, and the registry and every queue stay as they are.
C35_BusOnlyForLocalClients ==
    [][/\ (gpc.pc = "counted" /\ gpc'.pc # "counted") =>
              /\ gpc'.pc = "broadcast" <=> gpc.count > 0
              /\ gpc.count = 0 =>
                     gpc'.pc = "idle" /\ clients' = clients /\ send' = send
       /\ (gpc.pc = "broadcast" /\ gpc'.pc # "broadcast") =>
              /\ gpc.count > 0
              /\ hreq'.msg = BusMessage(gpc.doc)]_vars

\* a message from the bus has reached a local client's queue, and the next
\* one, for a document without local clients, has been dropped
C35_Witness ==
    /\ \E c \in ClientIds : \E i \in 1..Len(send[c]) :
           send[c][i] = BusMessage(cdoc[c])
    /\ gpc.pc = "idle" /\ gpc.doc \in Docs /\ gpc.count = 0

\* ------------------------------------------------------ collaborators
\* the rows of a table that are not about document d and user u, in order
RECURSIVE OtherRows(_, _, _)
OtherRows(rows, d, u) ==
    IF rows = <<>> THEN <<>>
    ELSE IF rows[1].document_id = d /\ rows[1].user_id = u
    THEN OtherRows(Tail(rows), d, u)
    ELSE <<rows[1]>> \o OtherRows(Tail(rows), d, u)

\* C36: AddCollaborator with a permission other than view or edit fails and
\* leaves the table as it was, as does every call that fails; a call that
\* succeeds leaves exactly one row for the document and the user, holding
\* the permission of that call, and every other row as it was; repeating
\* the call changes nothing.
C36_AddCollaboratorUpserts ==
    [][dqOut'.n = dqOut.n + 1 =>
         LET call   == dqIn.calls[dqOut'.n]
             d      == dqIn.doc
             u      == dqIn.user
             before == dqOut.rows
             after  == dqOut'.rows
         IN /\ call.permission \notin {"view", "edit"} => dqOut'.err
            /\ dqOut'.err => after = before
            /\ ~dqOut'.err =>
                   /\ Cardinality(RowsFor(after, d, u)) = 1
                   /\ \A i \in RowsFor(after, d, u) :
                          after[i].permission = call.permission
                   /\ OtherRows(after, d, u) = OtherRows(before, d, u)
                   /\ AddCollaborator(after, d, u, call.permission,
                                      TRUE).rows = after]_vars

\* the second of two successful calls replaced the permission the first one
\* stored
C36_Witness ==
    /\ dqPc = "done" /\ ~dqOut.err
    /\ dqIn.calls[1].ok /\ dqIn.calls[1].permission = "view"
    /\ dqIn.calls[2].permission = "edit"
    /\ \E i \in RowsFor(dqOut.rows, dqIn.doc, dqIn.user) :
           dqOut.rows[i].permission = "edit"

\* ------------------------------------------------- events over HTTP: outcome
\* C37: CreateDocumentEvent answers every request exactly once, and answers
\* 201 exactly when it stored an event row: a failed insert is answered with
\* 500 and nothing else.
C37_OneOutcome ==
    haPc = "done" =>
        LET r == haOut.http.responses IN
        /\ Len(r) = 1
        /\ (\E i \in 1..Len(r) : r[i] = 201) <=> haOut.http.inserted

====
